---- MODULE Spec2Model ----
(***************************************************************************)
(* Channel processing pipeline of LingShu-backend.                         *)
(*                                                                         *)
(*   app/domain/models/channel.py              configuration model         *)
(*   app/domain/repositories/channel_repository.py   channel store         *)
(*   app/application/services/channel_service_impl.py  management ops      *)
(*   app/application/channel_processor.py      filter/transform/dispatch   *)
(*                                                                         *)
(* Python values are modelled as follows.  None is the string "None".  A   *)
(* configuration entry is a record whose field cls is the Python class of  *)
(* the entry: one of the pydantic config classes, "dict" for a raw mapping *)
(* (its other fields are the mapping's keys) or "object" for any other     *)
(* object (its other fields are the object's attributes).  A script is     *)
(* named by what it does to the namespace exec() runs it in.               *)
(***************************************************************************)
EXTENDS Naturals, Sequences, FiniteSets, TLC

VARIABLES
    store,            \* the channel table: id -> persisted row
    last,             \* outcome of the latest management / checked call
    pc,               \* position of the processing call
    channel,          \* process_message: the channel argument
    original_message, \* process_message: the message argument
    current_message,  \* process_message: current_message
    i,                \* loop index of the running stage (enumerate)
    message,          \* the stage's local variable message
    results,          \* _dispatch_to_destinations: results
    result,           \* the dict process_message returns
    executed,         \* exec() calls and destination sends made by the call
    inflight,         \* management requests between their read and their commit
    gate              \* history: the latest successful enable / disable per id

vars == <<store, last, pc, channel, original_message, current_message, i, message,
          results, result, executed, inflight, gate>>

cvars == <<inflight, gate>>

pvars == <<pc, channel, original_message, current_message, i, message, results,
           result, executed>>

----------------------------------------------------------------------------
(* Bounds of the model *)

MaxFilters == 2

MaxTransformers == 2

MaxDestinations == 2

(* Program constants *)

MaxNameLen == 100

None == "None"

----------------------------------------------------------------------------
(* Messages.  "MX" is a mapping with key x, "MY" a mapping without it,     *)
(* "MT" the value scripts assign.                                          *)

Messages == {"MX", "MY"}

HasKeyX(m) == m = "MX"

----------------------------------------------------------------------------
(* Configuration entries (app/domain/models/channel.py) *)

HTTPSourceConfig(path, method) ==
    [cls |-> "HTTPSourceConfig", type |-> "http", path |-> path, method |-> method]

PythonScriptFilterConfig(script) ==
    [cls |-> "PythonScriptFilterConfig", type |-> "python_script", script |-> script]

PythonScriptTransformerConfig(script) ==
    [cls |-> "PythonScriptTransformerConfig", type |-> "python_script", script |-> script]

HTTPDestinationConfig(url) ==
    [cls |-> "HTTPDestinationConfig", type |-> "http", url |-> url,
     method |-> "POST", headers |-> None]

TCPDestinationConfig(host, port) ==
    [cls |-> "TCPDestinationConfig", type |-> "tcp", host |-> host, port |-> port,
     use_mllp |-> FALSE]

(* isinstance(cfg, X) *)
IsInstance(cfg, class) == cfg.cls = class

(* hasattr(cfg, name): mapping keys are not attributes *)
HasAttr(cfg, name) == cfg.cls # "dict" /\ name \in DOMAIN cfg

(* dict.get(key, default) *)
DictGet(cfg, key, default) == IF key \in DOMAIN cfg THEN cfg[key] ELSE default

(* BaseModel.model_dump() of one entry: a pydantic object becomes a mapping *)
(* of all its fields, a raw mapping stays as it is                          *)
DumpEntry(cfg) == IF cfg.cls = "dict" THEN cfg ELSE [cfg EXCEPT !.cls = "dict"]

DumpList(cfgs) == [k \in DOMAIN cfgs |-> DumpEntry(cfgs[k])]

(* ChannelModel.model_dump() *)
model_dump(ch) ==
    [ch EXCEPT !.source = DumpEntry(ch.source),
               !.filters = DumpList(ch.filters),
               !.transformers = DumpList(ch.transformers),
               !.destinations = DumpList(ch.destinations)]

(* ChannelModel constructor: a table model is constructed without validation,  *)
(* the values are kept as given and absent optional fields get defaults    *)
ChannelModel(data) ==
    [id |-> DictGet(data, "id", None),
     name |-> DictGet(data, "name", None),
     description |-> DictGet(data, "description", None),
     enabled |-> DictGet(data, "enabled", TRUE),
     source |-> DictGet(data, "source", None),
     filters |-> DictGet(data, "filters", <<>>),
     transformers |-> DictGet(data, "transformers", <<>>),
     destinations |-> DictGet(data, "destinations", <<>>)]

(* the outcome of calling the ChannelModel constructor: the class declares  *)
(* no length or emptiness constraint on name and destinations and, being a *)
(* table model, is constructed without validation, so it never raises      *)
NewChannelModel(data) == [raised |-> FALSE, value |-> ChannelModel(data)]

----------------------------------------------------------------------------
(* Scripts.  A script is arbitrary Python text; the model names a script   *)
(* by its effect on the namespace it is executed in.                       *)
(*   filter scripts                                                        *)
(*     "pass"    _passed = True                                            *)
(*     "rebind"  _passed = True; message = "MT"                            *)
(*     "noflag"  assigns nothing                                           *)
(*     "false"   _passed = False                                           *)
(*     "has_x"   if 'x' in message: _passed=True else: _passed=False       *)
(*     "raise"   raises                                                    *)
(*   transformer scripts                                                   *)
(*     "set_T"    _transformed_message = "MT"                              *)
(*     "copy"     _transformed_message = message                           *)
(*     "noassign" assigns nothing                                          *)
(*     "del"      del _transformed_message                                 *)
(*     "raise"    raises                                                   *)

FilterScripts == {"pass", "rebind", "noflag", "false", "has_x", "raise"}

TransformerScripts == {"set_T", "copy", "noassign", "del", "raise"}

(* exec(script, {}, local_vars) of a filter, local_vars starting as        *)
(* {"message": message, "_passed": False}: the namespace afterwards        *)
ExecFilterScript(script, msg) ==
    LET lv == [raised |-> FALSE, error |-> None, passed |-> FALSE, message |-> msg]
    IN CASE script = "pass"   -> [lv EXCEPT !.passed = TRUE]
         [] script = "rebind" -> [lv EXCEPT !.passed = TRUE, !.message = "MT"]
         [] script = "noflag" -> lv
         [] script = "false"  -> lv
         [] script = "has_x"  ->
                IF msg = None
                THEN [lv EXCEPT !.raised = TRUE, !.error = "TypeError"]
                ELSE [lv EXCEPT !.passed = HasKeyX(msg)]
         [] OTHER -> [lv EXCEPT !.raised = TRUE, !.error = "ScriptError"]

(* exec(script, {}, local_vars) of a transformer, local_vars starting as   *)
(* {"message": message, "_transformed_message": None}; has_out tells       *)
(* whether the key _transformed_message is in the namespace afterwards     *)
ExecTransformerScript(script, msg) ==
    LET lv == [raised |-> FALSE, error |-> None, has_out |-> TRUE, out |-> None]
    IN CASE script = "set_T"    -> [lv EXCEPT !.out = "MT"]
         [] script = "copy"     -> [lv EXCEPT !.out = msg]
         [] script = "noassign" -> lv
         [] script = "del"      -> [lv EXCEPT !.has_out = FALSE]
         [] OTHER -> [lv EXCEPT !.raised = TRUE, !.error = "ScriptError"]

----------------------------------------------------------------------------
(* Destination dispatch (app/application/channel_processor.py) *)

get_destination_type(destination_config) ==
    IF HasAttr(destination_config, "type") THEN destination_config.type
    ELSE IF IsInstance(destination_config, "dict")
         THEN DictGet(destination_config, "type", "unknown")
         ELSE "unknown"

Returned(value) == [raised |-> FALSE, value |-> value]

Raised(error) == [raised |-> TRUE, error |-> error]

send_to_http_destination(destination_config, msg) ==
    Returned([destination_type |-> "http", status |-> "sent",
              url |-> destination_config.url])

send_to_tcp_destination(destination_config, msg) ==
    Returned([destination_type |-> "tcp", status |-> "sent",
              host |-> destination_config.host, port |-> destination_config.port])

(* mutant of send_to_fallback_destination: a destination of no known type  *)
(* is an error                                                             *)
send_to_fallback_destination_strict(destination_config, msg) ==
    LET dest_type == get_destination_type(destination_config)
    IN IF dest_type = "http"
       THEN Returned([destination_type |-> "http", status |-> "sent",
                      url |-> DictGet(destination_config, "url", None)])
       ELSE IF dest_type = "tcp"
       THEN Returned([destination_type |-> "tcp", status |-> "sent",
                      host |-> DictGet(destination_config, "host", None),
                      port |-> DictGet(destination_config, "port", None)])
       ELSE Raised("ValueError: unknown destination type")

(* mutant of send_to_fallback_destination: only objects with attributes    *)
(* are sent, a mapping is skipped                                          *)
send_to_fallback_destination_attributes_only(destination_config, msg) ==
    LET dest_type == get_destination_type(destination_config)
    IN IF dest_type = "http" /\ HasAttr(destination_config, "url")
       THEN Returned([destination_type |-> "http", status |-> "sent",
                      url |-> destination_config.url])
       ELSE IF dest_type = "tcp" /\ HasAttr(destination_config, "host")
       THEN IF HasAttr(destination_config, "port")
            THEN Returned([destination_type |-> "tcp", status |-> "sent",
                           host |-> destination_config.host,
                           port |-> destination_config.port])
            ELSE Raised("AttributeError: port")
       ELSE Returned([destination_type |->
                          IF dest_type \in {None, ""} THEN "unknown" ELSE dest_type,
                      status |-> "skipped"])

send_to_fallback_destination(destination_config, msg) ==
    LET dest_type == get_destination_type(destination_config)
        is_dict == IsInstance(destination_config, "dict")
    IN IF dest_type = "http" /\ HasAttr(destination_config, "url")
       THEN Returned([destination_type |-> "http", status |-> "sent",
                      url |-> destination_config.url])
       ELSE IF dest_type = "http" /\ is_dict
       THEN Returned([destination_type |-> "http", status |-> "sent",
                      url |-> DictGet(destination_config, "url", None)])
       ELSE IF dest_type = "tcp" /\ HasAttr(destination_config, "host")
       THEN IF HasAttr(destination_config, "port")
            THEN Returned([destination_type |-> "tcp", status |-> "sent",
                           host |-> destination_config.host,
                           port |-> destination_config.port])
            ELSE Raised("AttributeError: port")
       ELSE IF dest_type = "tcp" /\ is_dict
       THEN Returned([destination_type |-> "tcp", status |-> "sent",
                      host |-> DictGet(destination_config, "host", None),
                      port |-> DictGet(destination_config, "port", None)])
       ELSE Returned([destination_type |->
                          IF dest_type \in {None, ""} THEN "unknown" ELSE dest_type,
                      status |-> "skipped"])

send_to_single_destination(destination_config, msg) ==
    IF IsInstance(destination_config, "HTTPDestinationConfig")
    THEN send_to_http_destination(destination_config, msg)
    ELSE IF IsInstance(destination_config, "TCPDestinationConfig")
    THEN send_to_tcp_destination(destination_config, msg)
    ELSE send_to_fallback_destination(destination_config, msg)

(* one iteration of the loop of _dispatch_to_destinations: the entry       *)
(* appended to results                                                     *)
DispatchOutcome(destination_config, msg) ==
    LET r == send_to_single_destination(destination_config, msg)
    IN IF r.raised
       THEN [destination_type |-> get_destination_type(destination_config),
             status |-> "error", error |-> r.error]
       ELSE r.value

----------------------------------------------------------------------------
(* Input universes *)

Ids == {"c1", "c2"}

(* the values uuid.uuid4() may return *)
UuidPool == {"u1"}

(* the mapping data without its key *)
Without(data, key) == [k \in DOMAIN data \ {key} |-> data[k]]

SeqsUpTo(S, n) == UNION {[1..k -> S] : k \in 0..n}

Name(pad, body) == [pad |-> pad, body |-> body]

(* str.strip() and len() on names: pad blanks around body other characters *)
Strip(name) == [name EXCEPT !.pad = 0]

StrLen(name) == name.pad + name.body

DictFilter(script) == DumpEntry(PythonScriptFilterConfig(script))

DictTransformer(script) == DumpEntry(PythonScriptTransformerConfig(script))

DictHTTPDestination == [cls |-> "dict", type |-> "http", url |-> "U1", method |-> "POST"]

DictTCPDestination == [cls |-> "dict", type |-> "tcp", host |-> "H1", port |-> 6661]

FilterConfigs ==
    {PythonScriptFilterConfig(s) : s \in FilterScripts} \cup {DictFilter("noflag")}

TransformerConfigs ==
    {PythonScriptTransformerConfig(s) : s \in TransformerScripts}
        \cup {DictTransformer("set_T")}

DestinationConfigs ==
    { HTTPDestinationConfig("U1"),
      TCPDestinationConfig("H1", 6661),
      DictHTTPDestination,
      DictTCPDestination,
      [cls |-> "dict", type |-> "ftp", url |-> "U1"],
      [cls |-> "dict", url |-> "U1"],
      [cls |-> "object", type |-> "tcp", host |-> "H1"],
      [cls |-> "object", type |-> "http", url |-> "U2"],
      [cls |-> "object", type |-> "ftp", host |-> "H1"] }

BaseChannel ==
    [id |-> "d1", name |-> Name(0, 1), description |-> None, enabled |-> TRUE,
     source |-> HTTPSourceConfig("/in", "POST"),
     filters |-> <<>>, transformers |-> <<>>,
     destinations |-> <<HTTPDestinationConfig("U1")>>]

StageChannels ==
    {[BaseChannel EXCEPT !.filters = f, !.transformers = t] :
        f \in SeqsUpTo(FilterConfigs, MaxFilters),
        t \in SeqsUpTo(TransformerConfigs, MaxTransformers)}

DestinationChannels ==
    {[BaseChannel EXCEPT !.destinations = d] :
        d \in SeqsUpTo(DestinationConfigs, MaxDestinations)}

DirectChannels == StageChannels \cup DestinationChannels

----------------------------------------------------------------------------
(* The processing call (ChannelProcessor.process_message) *)

Nothing == [none |-> TRUE]

(* what the latest call was given, what it answered (the exception raised  *)
(* or "ok", and the returned value) and the store methods it called        *)
Outcome(op, arg, id, outcome, field, ret, calls) ==
    [op |-> op, arg |-> arg, id |-> id, outcome |-> outcome, field |-> field,
     ret |-> ret, calls |-> calls]

NoLast == Outcome(None, Nothing, None, None, None, Nothing, <<>>)

Event(stage, index, cfg, msg) ==
    [stage |-> stage, index |-> index, config |-> cfg, message |-> msg]

(* entry of process_message up to the call of _apply_filters *)
EnterPipeline(ch, msg) ==
    /\ pc = "idle"
    /\ pc' = "filtering"
    /\ channel' = ch
    /\ original_message' = msg
    /\ current_message' = msg
    /\ message' = msg
    /\ i' = 1
    /\ results' = <<>>
    /\ result' = Nothing
    /\ executed' = <<>>

process_message(ch, msg) ==
    /\ EnterPipeline(ch, msg)
    /\ last' = Outcome("process_message", Nothing, ch.id, "invoked", None, Nothing, <<>>)
    /\ UNCHANGED store

(* mutant of ReturnDict: every result carries a message text *)
ReturnDict_with_message(d) ==
    /\ pc' = "done"
    /\ result' = [k \in DOMAIN d \cup {"message"} |->
                      IF k \in DOMAIN d THEN d[k] ELSE "Message processed."]
    /\ UNCHANGED <<channel, original_message, current_message, i, message, results>>

(* process_message returns d *)
ReturnDict(d) ==
    /\ pc' = "done"
    /\ result' = d
    /\ UNCHANGED <<channel, original_message, current_message, i, message, results>>

(* mutant of apply_filters: a script that raises is reported as a filtered *)
(* message                                                                 *)
apply_filters_error_as_filtered ==
    /\ pc = "filtering"
    /\ UNCHANGED <<store, last>>
    /\ IF i > Len(channel.filters)
       THEN /\ current_message' = None
            /\ message' = None
            /\ pc' = "transforming"
            /\ i' = 1
            /\ UNCHANGED <<channel, original_message, results, result, executed>>
       ELSE LET filter_config == channel.filters[i]
                local_vars == ExecFilterScript(filter_config.script, message)
            IN IF ~IsInstance(filter_config, "PythonScriptFilterConfig")
               THEN /\ i' = i + 1
                    /\ UNCHANGED <<pc, channel, original_message, current_message,
                                   message, results, result, executed>>
               ELSE /\ executed' = Append(executed,
                                       Event("filter", i, filter_config, message))
                    /\ IF local_vars.raised \/ ~local_vars.passed
                       THEN ReturnDict([status |-> "filtered",
                                message |-> <<"Message filtered out.">>])
                       ELSE /\ message' = local_vars.message
                            /\ i' = i + 1
                            /\ UNCHANGED <<pc, channel, original_message, current_message, results, result>>

(* _apply_filters, one loop iteration or the end of the loop; the index i  *)
(* is the enumerate index plus one                                         *)
apply_filters ==
    /\ pc = "filtering"
    /\ UNCHANGED <<store, last>>
    /\ IF i > Len(channel.filters)
       THEN \* the loop is over (or `not channel.filters`): the function
            \* returns None, which process_message assigns to current_message
            LET filter_result == None
            IN /\ current_message' = filter_result
               /\ message' = filter_result
               /\ pc' = "transforming"
               /\ i' = 1
               /\ UNCHANGED <<channel, original_message, results, result, executed>>
       ELSE LET filter_config == channel.filters[i]
                local_vars == ExecFilterScript(filter_config.script, message)
            IN IF ~IsInstance(filter_config, "PythonScriptFilterConfig")
               THEN /\ i' = i + 1
                    /\ UNCHANGED <<pc, channel, original_message, current_message,
                                   message, results, result, executed>>
               ELSE /\ executed' = Append(executed,
                                       Event("filter", i, filter_config, message))
                    /\ IF local_vars.raised
                       THEN ReturnDict([status |-> "error",
                                message |-> <<"Filter script error", local_vars.error>>])
                       ELSE IF ~local_vars.passed
                       THEN ReturnDict([status |-> "filtered",
                                message |-> <<"Message filtered out.">>])
                       ELSE /\ message' = local_vars.message
                            /\ i' = i + 1
                            /\ UNCHANGED <<pc, channel, original_message, current_message, results, result>>

(* mutant of apply_transformers: a script that raises leaves the message   *)
(* as it was and the loop goes on                                          *)
apply_transformers_continuing ==
    /\ pc = "transforming"
    /\ UNCHANGED <<store, last>>
    /\ IF i > Len(channel.transformers)
       THEN /\ current_message' = None
            /\ message' = None
            /\ pc' = "dispatching"
            /\ i' = 1
            /\ UNCHANGED <<channel, original_message, results, result, executed>>
       ELSE LET transformer_config == channel.transformers[i]
                local_vars == ExecTransformerScript(transformer_config.script, message)
            IN IF ~IsInstance(transformer_config, "PythonScriptTransformerConfig")
               THEN /\ i' = i + 1
                    /\ UNCHANGED <<pc, channel, original_message, current_message,
                                   message, results, result, executed>>
               ELSE /\ executed' = Append(executed,
                                       Event("transformer", i, transformer_config, message))
                    /\ message' = IF local_vars.raised \/ ~local_vars.has_out
                                  THEN message ELSE local_vars.out
                    /\ i' = i + 1
                    /\ UNCHANGED <<pc, channel, original_message, current_message, results, result>>

(* _apply_transformers, one loop iteration or the end of the loop *)
apply_transformers ==
    /\ pc = "transforming"
    /\ UNCHANGED <<store, last>>
    /\ IF i > Len(channel.transformers)
       THEN LET transformer_result == None
            IN /\ current_message' = transformer_result
               /\ message' = transformer_result
               /\ pc' = "dispatching"
               /\ i' = 1
               /\ UNCHANGED <<channel, original_message, results, result, executed>>
       ELSE LET transformer_config == channel.transformers[i]
                local_vars == ExecTransformerScript(transformer_config.script, message)
            IN IF ~IsInstance(transformer_config, "PythonScriptTransformerConfig")
               THEN /\ i' = i + 1
                    /\ UNCHANGED <<pc, channel, original_message, current_message,
                                   message, results, result, executed>>
               ELSE /\ executed' = Append(executed,
                                       Event("transformer", i, transformer_config, message))
                    /\ IF local_vars.raised
                       THEN ReturnDict([status |-> "error",
                                message |-> <<"Transformer script error", local_vars.error>>])
                       ELSE /\ message' = IF local_vars.has_out THEN local_vars.out
                                          ELSE message
                            /\ i' = i + 1
                            /\ UNCHANGED <<pc, channel, original_message, current_message, results, result>>

(* mutant of dispatch_to_destinations: an exception raised by a send is     *)
(* not caught at the destination and ends the call                         *)
dispatch_to_destinations_aborting ==
    /\ pc = "dispatching"
    /\ UNCHANGED <<store, last>>
    /\ IF i > Len(channel.destinations)
       THEN /\ ReturnDict([status |-> "success",
                           processed_message |-> current_message,
                           destination_results |-> results])
            /\ UNCHANGED executed
       ELSE LET destination_config == channel.destinations[i]
                r == send_to_single_destination(destination_config, message)
            IN /\ executed' = Append(executed,
                                  Event("destination", i, destination_config, message))
               /\ IF r.raised
                  THEN ReturnDict([status |-> "error", message |-> <<r.error>>])
                  ELSE /\ results' = Append(results, r.value)
                       /\ i' = i + 1
                       /\ UNCHANGED <<pc, channel, original_message, current_message,
                                      message, result>>

(* mutant of dispatch_to_destinations: a skipped destination gets no entry *)
dispatch_to_destinations_omitting ==
    /\ pc = "dispatching"
    /\ UNCHANGED <<store, last>>
    /\ IF i > Len(channel.destinations)
       THEN /\ ReturnDict([status |-> "success",
                           processed_message |-> current_message,
                           destination_results |-> results])
            /\ UNCHANGED executed
       ELSE LET destination_config == channel.destinations[i]
                entry == DispatchOutcome(destination_config, message)
            IN /\ executed' = Append(executed,
                                  Event("destination", i, destination_config, message))
               /\ results' = IF entry.status = "skipped" THEN results
                             ELSE Append(results, entry)
               /\ i' = i + 1
               /\ UNCHANGED <<pc, channel, original_message, current_message, message, result>>

(* mutant of dispatch_to_destinations: each iteration takes the            *)
(* destination from the row the table holds at that moment                 *)
dispatch_to_destinations_reloading ==
    /\ pc = "dispatching"
    /\ UNCHANGED <<store, last>>
    /\ LET row == IF channel.id \in DOMAIN store THEN store[channel.id] ELSE channel
       IN IF i > Len(row.destinations)
          THEN /\ ReturnDict([status |-> "success",
                              processed_message |-> current_message,
                              destination_results |-> results])
               /\ UNCHANGED executed
          ELSE LET destination_config == row.destinations[i]
               IN /\ executed' = Append(executed,
                                     Event("destination", i, destination_config, message))
                  /\ results' = Append(results, DispatchOutcome(destination_config, message))
                  /\ i' = i + 1
                  /\ UNCHANGED <<pc, channel, original_message, current_message, message,
                                 result>>

(* _dispatch_to_destinations, one loop iteration, or the end of the loop   *)
(* and the return of process_message                                       *)
dispatch_to_destinations ==
    /\ pc = "dispatching"
    /\ UNCHANGED <<store, last>>
    /\ IF i > Len(channel.destinations)
       THEN /\ ReturnDict([status |-> "success",
                           processed_message |-> current_message,
                           destination_results |-> results])
            /\ UNCHANGED executed
       ELSE LET destination_config == channel.destinations[i]
            IN /\ executed' = Append(executed,
                                  Event("destination", i, destination_config, message))
               /\ results' = Append(results, DispatchOutcome(destination_config, message))
               /\ i' = i + 1
               /\ UNCHANGED <<pc, channel, original_message, current_message, message, result>>

(* mutant of process_return: the channel of a call that did not end in     *)
(* success is switched off in the table                                    *)
process_return_disabling_on_failure ==
    /\ pc = "done"
    /\ pc' = "idle"
    /\ channel' = Nothing
    /\ original_message' = None
    /\ current_message' = None
    /\ message' = None
    /\ i' = 1
    /\ results' = <<>>
    /\ result' = Nothing
    /\ executed' = <<>>
    /\ store' = IF result.status # "success" /\ channel.id \in DOMAIN store
                THEN [store EXCEPT ![channel.id].enabled = FALSE]
                ELSE store
    /\ UNCHANGED last

(* the caller has taken the result; the processor holds no state *)
process_return ==
    /\ pc = "done"
    /\ pc' = "idle"
    /\ channel' = Nothing
    /\ original_message' = None
    /\ current_message' = None
    /\ message' = None
    /\ i' = 1
    /\ results' = <<>>
    /\ result' = Nothing
    /\ executed' = <<>>
    /\ UNCHANGED <<store, last>>

PipelineStep ==
    /\ UNCHANGED cvars
    /\ \/ apply_filters
       \/ apply_transformers
       \/ dispatch_to_destinations
       \/ process_return

----------------------------------------------------------------------------
(* The channel store (ChannelRepository over one table keyed by id).  A    *)
(* row holds what model_dump() produced: the JSON columns come back from   *)
(* the database as raw mappings.                                           *)

EmptyStore == [x \in {} |-> Nothing]

Found(row) == row # Nothing

get_by_id(s, channel_id) == IF channel_id \in DOMAIN s THEN s[channel_id] ELSE Nothing

get_all(s) == {s[x] : x \in DOMAIN s}

(* mutant of AddedRow: the filters column is not written *)
AddedRow_without_filters(ch) == ChannelModel(Without(model_dump(ch), "filters"))

(* the row add() writes and returns after commit and refresh *)
AddedRow(ch) == ChannelModel(model_dump(ch))

add(s, ch) ==
    [x \in DOMAIN s \cup {ch.id} |-> IF x = ch.id THEN AddedRow(ch) ELSE s[x]]

(* update() of a present row: every dumped field is set on the row *)
update(s, ch) == [s EXCEPT ![ch.id] = model_dump(ch)]

(* mutant of delete: the row is left in the table *)
delete_keeping_row(s, channel_id) == s

delete(s, channel_id) == [x \in DOMAIN s \ {channel_id} |-> s[x]]

----------------------------------------------------------------------------
(* Management operations (ChannelServiceImpl, ChannelProcessor) *)

(* mutant of validate_channel_creation_data: the destinations list is not  *)
(* checked for emptiness                                                   *)
validate_channel_creation_data_no_destinations(data) ==
    IF "name" \notin DOMAIN data THEN "name"
    ELSE IF "source" \notin DOMAIN data THEN "source"
    ELSE IF "destinations" \notin DOMAIN data THEN "destinations"
    ELSE IF StrLen(Strip(data.name)) = 0 THEN "name"
    ELSE IF StrLen(Strip(data.name)) > MaxNameLen THEN "name"
    ELSE "ok"

(* _validate_channel_creation_data: the field of the ChannelValidationError *)
(* raised, or "ok"                                                          *)
validate_channel_creation_data(data) ==
    IF "name" \notin DOMAIN data THEN "name"
    ELSE IF "source" \notin DOMAIN data THEN "source"
    ELSE IF "destinations" \notin DOMAIN data THEN "destinations"
    ELSE IF StrLen(Strip(data.name)) = 0 THEN "name"
    ELSE IF StrLen(Strip(data.name)) > MaxNameLen THEN "name"
    ELSE IF Len(data.destinations) = 0 THEN "destinations"
    ELSE "ok"

(* mutant of WithId: the id is not written into the data *)
WithId_not_written(data, id) == data

(* data with data["id"] = id *)
WithId(data, id) ==
    [k \in DOMAIN data \cup {"id"} |-> IF k = "id" THEN id ELSE data[k]]

(* mutant of CreateWithId: an existing row is overwritten *)
CreateWithId_upsert(data, channel_id) ==
    LET ch == ChannelModel(WithId(data, channel_id))
    IN /\ store' = add(store, ch)
       /\ last' = Outcome("create_channel", data, channel_id,
                          IF Found(get_by_id(store, channel_id))
                          THEN "AlreadyExists" ELSE "ok",
                          None, AddedRow(ch), <<"get_by_id", "add">>)

(* create_channel once the id is known (given, or generated by uuid4) *)
CreateWithId(data, channel_id) ==
    LET existing_channel == get_by_id(store, channel_id)
        ch == ChannelModel(WithId(data, channel_id))
    IN IF Found(existing_channel)
       THEN /\ last' = Outcome("create_channel", data, channel_id, "AlreadyExists", None,
                               Nothing, <<"get_by_id">>)
            /\ UNCHANGED store
       ELSE /\ store' = add(store, ch)
            /\ last' = Outcome("create_channel", data, channel_id, "ok", None,
                               AddedRow(ch), <<"get_by_id", "add">>)

create_channel(data) ==
    /\ UNCHANGED pvars
    /\ LET field == validate_channel_creation_data(data)
       IN IF field # "ok"
          THEN /\ last' = Outcome("create_channel", data, DictGet(data, "id", None),
                                  "ValidationError", field, Nothing, <<>>)
               /\ UNCHANGED store
          ELSE IF DictGet(data, "id", None) \in {None, ""}
          THEN \E generated \in UuidPool : CreateWithId(data, generated)
          ELSE CreateWithId(data, data.id)

create_channel_with_checks(ch) ==
    /\ UNCHANGED pvars
    /\ IF ch.id = None
       THEN /\ last' = Outcome("create_channel_with_checks", ch, ch.id, "BadRequest",
                               None, Nothing, <<>>)
            /\ UNCHANGED store
       ELSE IF Found(get_by_id(store, ch.id))
       THEN /\ last' = Outcome("create_channel_with_checks", ch, ch.id, "AlreadyExists",
                               None, Nothing, <<"get_by_id">>)
            /\ UNCHANGED store
       ELSE /\ store' = add(store, ch)
            /\ last' = Outcome("create_channel_with_checks", ch, ch.id, "ok", None,
                               AddedRow(ch), <<"get_by_id", "add">>)

(* the checks every operation starts with (get_channel_by_id): the         *)
(* exception raised, or "ok"                                               *)
GetCheck(channel_id) ==
    IF channel_id \in {None, ""} THEN "InvalidData"
    ELSE IF ~Found(get_by_id(store, channel_id)) THEN "NotFound"
    ELSE "ok"

(* mutant of GetCalls: the row is looked up before the id is checked *)
GetCalls_lookup_first(channel_id) == <<"get_by_id">>

GetCalls(channel_id) == IF channel_id \in {None, ""} THEN <<>> ELSE <<"get_by_id">>

get_channel_by_id(channel_id) ==
    /\ UNCHANGED pvars
    /\ UNCHANGED store
    /\ last' = Outcome("get_channel_by_id", Nothing, channel_id, GetCheck(channel_id), None,
                       get_by_id(store, channel_id), GetCalls(channel_id))

get_all_channels ==
    /\ UNCHANGED pvars
    /\ UNCHANGED store
    /\ last' = Outcome("get_all_channels", Nothing, None, "ok", None,
                       [channels |-> get_all(store)], <<"get_all">>)

(* _validate_channel_update_data: the field of the ChannelValidationError  *)
(* raised, or "ok"                                                         *)
validate_channel_update_data(data) ==
    IF "name" \in DOMAIN data /\ StrLen(Strip(data.name)) = 0 THEN "name"
    ELSE IF "name" \in DOMAIN data /\ StrLen(Strip(data.name)) > MaxNameLen THEN "name"
    ELSE IF "destinations" \in DOMAIN data /\ Len(data.destinations) = 0
    THEN "destinations"
    ELSE "ok"

(* mutant of Merge: the supplied data are dropped *)
Merge_keeping_existing(existing, data) == existing

(* {**existing, **data} *)
Merge(existing, data) ==
    [k \in DOMAIN existing \cup DOMAIN data |->
        IF k \in DOMAIN data THEN data[k] ELSE existing[k]]

(* mutant of PinId: an id in the supplied data is kept *)
PinId_skipped(update_data, channel_id) == update_data

(* update_data["id"] = channel_id *)
PinId(update_data, channel_id) == WithId(update_data, channel_id)

update_channel(channel_id, data) ==
    /\ UNCHANGED pvars
    /\ IF GetCheck(channel_id) # "ok"
       THEN /\ last' = Outcome("update_channel", data, channel_id, GetCheck(channel_id),
                               None, Nothing, GetCalls(channel_id))
            /\ UNCHANGED store
       ELSE IF validate_channel_update_data(data) # "ok"
       THEN /\ last' = Outcome("update_channel", data, channel_id, "ValidationError",
                               validate_channel_update_data(data), Nothing, <<"get_by_id">>)
            /\ UNCHANGED store
       ELSE LET existing_channel == get_by_id(store, channel_id)
                update_data == PinId(Merge(model_dump(existing_channel), data), channel_id)
                updated_channel == NewChannelModel(update_data).value
            IN IF ~Found(get_by_id(store, updated_channel.id))
               THEN \* ChannelRepository.update raises ValueError
                    /\ last' = Outcome("update_channel", data, channel_id, "ValueError",
                                       None, Nothing, <<"get_by_id", "update">>)
                    /\ UNCHANGED store
               ELSE /\ store' = update(store, updated_channel)
                    /\ last' = Outcome("update_channel", data, channel_id, "ok", None,
                                       update(store, updated_channel)[updated_channel.id],
                                       <<"get_by_id", "update">>)

(* mutant of delete_channel: the existence of the channel is not checked *)
delete_channel_unchecked(channel_id) ==
    /\ UNCHANGED pvars
    /\ store' = delete(store, channel_id)
    /\ last' = Outcome("delete_channel", Nothing, channel_id, "ok", None, Nothing,
                       <<"delete">>)

delete_channel(channel_id) ==
    /\ UNCHANGED pvars
    /\ IF GetCheck(channel_id) # "ok"
       THEN /\ last' = Outcome("delete_channel", Nothing, channel_id, GetCheck(channel_id),
                               None, Nothing, GetCalls(channel_id))
            /\ UNCHANGED store
       ELSE /\ store' = delete(store, channel_id)
            /\ last' = Outcome("delete_channel", Nothing, channel_id, "ok", None, Nothing,
                               <<"get_by_id", "delete">>)

(* mutant of SetEnabled: the row is written back also when the flag        *)
(* already has the value asked for                                         *)
SetEnabled_always_updates(op, channel_id, flag) ==
    /\ UNCHANGED pvars
    /\ IF GetCheck(channel_id) # "ok"
       THEN /\ last' = Outcome(op, Nothing, channel_id, GetCheck(channel_id), None, Nothing,
                               GetCalls(channel_id))
            /\ UNCHANGED store
       ELSE LET ch == get_by_id(store, channel_id)
                updated_channel == ChannelModel([model_dump(ch) EXCEPT !.enabled = flag])
            IN /\ store' = update(store, updated_channel)
               /\ last' = Outcome(op, Nothing, channel_id, "ok", None,
                                  update(store, updated_channel)[channel_id],
                                  <<"get_by_id", "update">>)

(* mutant of SetEnabled: the written channel is built from the flag and    *)
(* the required fields only, so the optional fields fall to their defaults *)
SetEnabled_required_fields_only(op, channel_id, flag) ==
    /\ UNCHANGED pvars
    /\ IF GetCheck(channel_id) # "ok"
       THEN /\ last' = Outcome(op, Nothing, channel_id, GetCheck(channel_id), None, Nothing,
                               GetCalls(channel_id))
            /\ UNCHANGED store
       ELSE LET ch == get_by_id(store, channel_id)
                updated_channel ==
                    ChannelModel([id |-> ch.id, name |-> ch.name, source |-> ch.source,
                                  destinations |-> ch.destinations, enabled |-> flag])
            IN IF ch.enabled = flag
               THEN /\ last' = Outcome(op, Nothing, channel_id, "ok", None, ch, <<"get_by_id">>)
                    /\ UNCHANGED store
               ELSE /\ store' = update(store, updated_channel)
                    /\ last' = Outcome(op, Nothing, channel_id, "ok", None,
                                       update(store, updated_channel)[channel_id],
                                       <<"get_by_id", "update">>)

(* enable_channel (flag = TRUE) and disable_channel (flag = FALSE) *)
SetEnabled(op, channel_id, flag) ==
    /\ UNCHANGED pvars
    /\ IF GetCheck(channel_id) # "ok"
       THEN /\ last' = Outcome(op, Nothing, channel_id, GetCheck(channel_id), None, Nothing,
                               GetCalls(channel_id))
            /\ UNCHANGED store
       ELSE LET ch == get_by_id(store, channel_id)
                updated_channel == ChannelModel([model_dump(ch) EXCEPT !.enabled = flag])
            IN IF ch.enabled = flag
               THEN /\ last' = Outcome(op, Nothing, channel_id, "ok", None, ch, <<"get_by_id">>)
                    /\ UNCHANGED store
               ELSE /\ store' = update(store, updated_channel)
                    /\ last' = Outcome(op, Nothing, channel_id, "ok", None,
                                       update(store, updated_channel)[channel_id],
                                       <<"get_by_id", "update">>)

enable_channel(channel_id) == SetEnabled("enable_channel", channel_id, TRUE)

disable_channel(channel_id) == SetEnabled("disable_channel", channel_id, FALSE)

(* mutant of process_message_with_checks: the enabled flag is not checked *)
process_message_with_checks_unchecked(channel_id, msg) ==
    /\ pc = "idle"
    /\ UNCHANGED store
    /\ LET ch == get_by_id(store, channel_id)
       IN IF ~Found(ch)
          THEN /\ last' = Outcome("process_message_with_checks", Nothing, channel_id,
                                  "NotFound", None, Nothing, <<"get_by_id">>)
               /\ UNCHANGED pvars
          ELSE /\ last' = Outcome("process_message_with_checks", Nothing, channel_id,
                                  "invoked", None, Nothing, <<"get_by_id">>)
               /\ EnterPipeline(ch, msg)

process_message_with_checks(channel_id, msg) ==
    /\ pc = "idle"
    /\ UNCHANGED store
    /\ LET ch == get_by_id(store, channel_id)
       IN IF ~Found(ch)
          THEN /\ last' = Outcome("process_message_with_checks", Nothing, channel_id,
                                  "NotFound", None, Nothing, <<"get_by_id">>)
               /\ UNCHANGED pvars
          ELSE IF ~ch.enabled
          THEN /\ last' = Outcome("process_message_with_checks", Nothing, channel_id,
                                  "Disabled", None, Nothing, <<"get_by_id">>)
               /\ UNCHANGED pvars
          ELSE /\ last' = Outcome("process_message_with_checks", Nothing, channel_id,
                                  "invoked", None, Nothing, <<"get_by_id">>)
               /\ EnterPipeline(ch, msg)

(* POST /api/v1/channels/{channel_id}/process (channel_router.py).  The    *)
(* handler answers 404 for ChannelNotFoundError and 500 for every other    *)
(* exception, the HTTPException of process_message_with_checks included;   *)
(* the outcome is the status code of an error response, the field its      *)
(* detail, or "invoked" when the pipeline is entered.                      *)
process_message_endpoint(channel_id, msg) ==
    /\ pc = "idle"
    /\ UNCHANGED store
    /\ LET ch == get_by_id(store, channel_id)
       IN IF GetCheck(channel_id) = "NotFound"
          THEN /\ last' = Outcome("process_message_endpoint", Nothing, channel_id, "404",
                                  "Channel with ID not found", Nothing, <<"get_by_id">>)
               /\ UNCHANGED pvars
          ELSE IF GetCheck(channel_id) # "ok" \/ ~ch.enabled
          THEN /\ last' = Outcome("process_message_endpoint", Nothing, channel_id, "500",
                                  "Message processing failed", Nothing,
                                  GetCalls(channel_id) \o GetCalls(channel_id))
               /\ UNCHANGED pvars
          ELSE /\ last' = Outcome("process_message_endpoint", Nothing, channel_id,
                                  "invoked", None, Nothing, <<"get_by_id", "get_by_id">>)
               /\ EnterPipeline(ch, msg)

----------------------------------------------------------------------------
(* Inputs of the management operations *)

DictHTTPSource == [cls |-> "dict", type |-> "http", path |-> "/in", method |-> "POST"]

PlainData(id, en) ==
    [id |-> id, name |-> Name(0, 1), enabled |-> en, source |-> DictHTTPSource,
     destinations |-> <<DictHTTPDestination>>]

(* the scenario channel: one filter passing the messages with key x, one   *)
(* HTTP destination                                                        *)
ScenarioData(id, en) ==
    [id |-> id, name |-> Name(0, 1), enabled |-> en, source |-> DictHTTPSource,
     filters |-> <<DictFilter("has_x")>>,
     destinations |-> <<DictHTTPDestination>>]

FullData(id, en) ==
    [id |-> id, name |-> Name(1, 100), description |-> "desc", enabled |-> en,
     source |-> DictHTTPSource,
     filters |-> <<DictFilter("pass")>>,
     transformers |-> <<DictTransformer("set_T")>>,
     destinations |-> <<DictHTTPDestination, DictTCPDestination>>]

(* data that pass _validate_channel_creation_data with a destination of an *)
(* unknown type, or with an http destination that has no url               *)
UnknownTypeData(id) ==
    [PlainData(id, TRUE) EXCEPT
        !.destinations = <<[cls |-> "dict", type |-> "ftp", url |-> "U1"]>>]

MissingFieldData(id) ==
    [PlainData(id, TRUE) EXCEPT
        !.destinations = <<[cls |-> "dict", type |-> "http", method |-> "POST"]>>]

ValidData ==
    {PlainData(id, en) : id \in Ids, en \in BOOLEAN}
        \cup {UnknownTypeData("c1"), MissingFieldData("c2")}
        \cup {ScenarioData(id, en) : id \in Ids, en \in BOOLEAN}
        \cup {FullData(id, TRUE) : id \in Ids}
        \cup {Without(PlainData("c1", TRUE), "id"),
              [PlainData("c1", TRUE) EXCEPT !.id = ""]}

InvalidData ==
    {[PlainData(id, TRUE) EXCEPT !.name = n] :
        id \in Ids, n \in {Name(0, 0), Name(1, 0), Name(0, 101)}}
        \cup {[PlainData(id, TRUE) EXCEPT !.destinations = <<>>] : id \in Ids}
        \cup {[PlainData("c1", TRUE) EXCEPT !.name = Name(1, 0), !.destinations = <<>>]}
        \cup {Without(PlainData("c1", TRUE), k) : k \in {"name", "source", "destinations"}}

ChannelDataInputs == ValidData \cup InvalidData

TypedScenario(id, en) ==
    [id |-> id, name |-> Name(0, 1), description |-> None, enabled |-> en,
     source |-> HTTPSourceConfig("/in", "POST"),
     filters |-> <<PythonScriptFilterConfig("has_x")>>,
     transformers |-> <<>>,
     destinations |-> <<HTTPDestinationConfig("U1")>>]

ChannelModelInputs ==
    {TypedScenario(id, en) : id \in Ids \cup {None}, en \in BOOLEAN}

(* constructor arguments: the scenario channel with and without an id, and *)
(* channels with an empty id, an empty name, a name of 101 characters and  *)
(* no destination                                                          *)
ChannelModelData ==
    { TypedScenario("c1", TRUE),
      TypedScenario(None, TRUE),
      TypedScenario("", TRUE),
      [TypedScenario(None, TRUE) EXCEPT !.name = Name(0, 0)],
      [TypedScenario(None, TRUE) EXCEPT !.name = Name(0, 101)],
      [TypedScenario(None, TRUE) EXCEPT !.destinations = <<>>] }

(* the ChannelModel objects a caller can construct from them *)
ConstructedChannelModels ==
    {NewChannelModel(data).value : data \in {d \in ChannelModelData :
                                                ~NewChannelModel(d).raised}}

(* the data update_channel is called with *)
UpdateDataInputs ==
    { [name |-> Name(0, 2), id |-> "c2"],
      [enabled |-> FALSE, destinations |-> <<DictTCPDestination>>],
      [name |-> Name(1, 0)],
      [name |-> Name(0, 101)],
      [name |-> Name(1, 100)],
      [destinations |-> <<>>] }

(* the workers that serve management requests side by side *)
Requests == {"r1", "r2"}

(* a request: its operation and arguments, where it stands, the row its    *)
(* session read, its answer, and the workers whose requests overlapped it  *)
Request(op, id, data) ==
    [op |-> op, id |-> id, data |-> data, at |-> "read", loaded |-> Nothing,
     outcome |-> None, overlapped |-> {}]

NoRequest == [Request(None, None, Nothing) EXCEPT !.at = "idle"]

NoGate == [x \in {} |-> Nothing]

----------------------------------------------------------------------------
Init ==
    /\ store = EmptyStore
    /\ last = NoLast
    /\ pc = "idle"
    /\ channel = Nothing
    /\ original_message = None
    /\ current_message = None
    /\ message = None
    /\ i = 1
    /\ results = <<>>
    /\ result = Nothing
    /\ executed = <<>>
    /\ inflight = [r \in Requests |-> NoRequest]
    /\ gate = NoGate

(* the pipeline alone, called directly with channel objects *)
DirectCall ==
    /\ pc = "idle"
    /\ UNCHANGED cvars
    /\ \E ch \in DirectChannels, msg \in Messages : process_message(ch, msg)

NextPipeline ==
    \/ DirectCall
    \/ PipelineStep

SpecPipeline == Init /\ [][NextPipeline]_vars

(* Channels for the control flow of one call: every destination list, and  *)
(* stage lists over one script of each way a stage can end (pass, reject,  *)
(* raise for a filter; complete, raise for a transformer) and a raw        *)
(* mapping entry                                                           *)
ControlFilterConfigs ==
    {PythonScriptFilterConfig(s) : s \in {"pass", "false", "raise"}}
        \cup {DictFilter("noflag")}

ControlTransformerConfigs ==
    {PythonScriptTransformerConfig(s) : s \in {"set_T", "raise"}}
        \cup {DictTransformer("set_T")}

ControlChannels ==
    {[BaseChannel EXCEPT !.filters = f, !.transformers = t] :
        f \in SeqsUpTo(ControlFilterConfigs, MaxFilters),
        t \in SeqsUpTo(ControlTransformerConfigs, MaxTransformers)}
      \cup DestinationChannels

ControlCall ==
    /\ pc = "idle"
    /\ UNCHANGED cvars
    /\ \E ch \in ControlChannels, msg \in Messages : process_message(ch, msg)

NextPipelineLive ==
    \/ ControlCall
    \/ PipelineStep

(* process_message is one synchronous call: once entered it runs to its    *)
(* return, so the steps of a call are taken as long as one is enabled      *)
SpecPipelineLive == Init /\ [][NextPipelineLive]_vars /\ WF_vars(PipelineStep)

(* A management request.  The handlers are coroutines without a suspension *)
(* point, so a request runs to its end before the next one starts.         *)
Management ==
    /\ pc = "idle"
    /\ UNCHANGED cvars
    /\ \/ \E data \in ChannelDataInputs : create_channel(data)
       \/ \E ch \in ChannelModelInputs : create_channel_with_checks(ch)
       \/ \E id \in Ids \cup UuidPool \cup {""} : get_channel_by_id(id)
       \/ get_all_channels
       \/ \E id \in Ids \cup UuidPool : delete_channel(id)
       \/ \E id \in Ids \cup UuidPool : enable_channel(id)
       \/ \E id \in Ids \cup UuidPool : disable_channel(id)

CheckedCall ==
    /\ UNCHANGED cvars
    /\ \E id \in Ids \cup UuidPool, msg \in Messages : process_message_with_checks(id, msg)

(* Management requests with update_channel, over a store filled by a few   *)
(* create_channel requests and by create_channel_with_checks on the        *)
(* constructed channel objects                                             *)
UpdateCreateInputs == {PlainData("c1", TRUE), FullData("c2", TRUE)}

ManagementWithUpdate ==
    /\ pc = "idle"
    /\ UNCHANGED cvars
    /\ \/ \E data \in UpdateCreateInputs : create_channel(data)
       \/ \E ch \in ConstructedChannelModels : create_channel_with_checks(ch)
       \/ \E id \in Ids \cup UuidPool, data \in UpdateDataInputs : update_channel(id, data)
       \/ \E id \in Ids \cup UuidPool \cup {""} : get_channel_by_id(id)
       \/ get_all_channels
       \/ \E id \in Ids \cup UuidPool : delete_channel(id)
       \/ \E id \in Ids \cup UuidPool : enable_channel(id)
       \/ \E id \in Ids \cup UuidPool : disable_channel(id)

NextManagement == ManagementWithUpdate

SpecManagement == Init /\ [][NextManagement]_vars

EndpointCall ==
    /\ UNCHANGED cvars
    /\ \E id \in Ids \cup UuidPool, msg \in Messages : process_message_endpoint(id, msg)

(* the whole system: management operations and checked processing calls *)
Next ==
    \/ Management
    \/ CheckedCall
    \/ EndpointCall
    \/ PipelineStep

Spec == Init /\ [][Next]_vars

----------------------------------------------------------------------------
(* Requests served by several workers over the one database.  Each request *)
(* has its own session (get_session): what it read stays as it was read    *)
(* until the request commits, and the commits of other requests fall       *)
(* between its read and its commit.                                        *)

Done(q, outcome) == [q EXCEPT !.at = "done", !.outcome = outcome]

SetRequest(r, q) == inflight' = [inflight EXCEPT ![r] = q]

(* two requests overlapped: each began before the other ended *)
Overlapped(r1, r2) ==
    /\ r1 # r2
    /\ inflight[r1].at # "idle" /\ inflight[r2].at # "idle"
    /\ r2 \in inflight[r1].overlapped
    /\ r1 \in inflight[r2].overlapped

(* a worker takes a request *)
Begin(r, req) ==
    /\ inflight[r].at \in {"idle", "done"}
    /\ LET running == {x \in Requests \ {r} : inflight[x].at \in {"read", "write"}}
       IN inflight' = [x \in Requests |->
                          IF x = r THEN [req EXCEPT !.overlapped = running]
                          ELSE IF x \in running
                          THEN [inflight[x] EXCEPT !.overlapped = @ \cup {r}]
                          ELSE inflight[x]]
    /\ UNCHANGED store

(* mutant of flush_update: the commit writes every column of the row *)
flush_update_all_columns(s, loaded, ch) == [s EXCEPT ![ch.id] = model_dump(ch)]

(* ChannelRepository.update in a session that loaded the row earlier:      *)
(* session.get answers with the loaded object, every dumped field is set   *)
(* on it, and the commit writes the columns whose value differs from the   *)
(* loaded value.  With loaded = s[ch.id] this is update(s, ch).            *)
flush_update(s, loaded, ch) ==
    [s EXCEPT ![ch.id] =
        [f \in DOMAIN model_dump(ch) |->
            IF model_dump(ch)[f] # loaded[f] THEN model_dump(ch)[f] ELSE s[ch.id][f]]]

(* create_channel up to the existence check *)
create_check(r) ==
    LET q == inflight[r]
    IN /\ q.op = "create_channel" /\ q.at = "read"
       /\ UNCHANGED store
       /\ IF validate_channel_creation_data(q.data) # "ok"
          THEN SetRequest(r, Done(q, "ValidationError"))
          ELSE \E channel_id \in IF DictGet(q.data, "id", None) \in {None, ""}
                                THEN UuidPool ELSE {q.data.id} :
                  IF Found(get_by_id(store, channel_id))
                  THEN SetRequest(r, Done([q EXCEPT !.id = channel_id], "AlreadyExists"))
                  ELSE SetRequest(r, [q EXCEPT !.id = channel_id, !.at = "write"])

(* create_channel from the construction of the ChannelModel: add() inserts *)
(* and commits; the insert of an id that is present by then violates the   *)
(* primary key and the database error leaves create_channel                *)
create_insert(r) ==
    LET q == inflight[r]
        ch == ChannelModel(WithId(q.data, q.id))
    IN /\ q.op = "create_channel" /\ q.at = "write"
       /\ IF Found(get_by_id(store, q.id))
          THEN /\ SetRequest(r, Done(q, "IntegrityError"))
               /\ UNCHANGED store
          ELSE /\ store' = add(store, ch)
               /\ SetRequest(r, Done(q, "ok"))

(* update_channel up to the construction of the updated channel *)
update_read(r) ==
    LET q == inflight[r]
    IN /\ q.op = "update_channel" /\ q.at = "read"
       /\ UNCHANGED store
       /\ IF GetCheck(q.id) # "ok"
          THEN SetRequest(r, Done(q, GetCheck(q.id)))
          ELSE IF validate_channel_update_data(q.data) # "ok"
          THEN SetRequest(r, Done(q, "ValidationError"))
          ELSE SetRequest(r, [q EXCEPT !.at = "write",
                                       !.loaded = get_by_id(store, q.id)])

(* the write of a row that is gone by the commit matches no row and the    *)
(* session raises                                                          *)
update_write(r) ==
    LET q == inflight[r]
        update_data == PinId(Merge(model_dump(q.loaded), q.data), q.id)
        updated_channel == NewChannelModel(update_data).value
    IN /\ q.op = "update_channel" /\ q.at = "write"
       /\ IF ~Found(get_by_id(store, q.id))
          THEN /\ SetRequest(r, Done(q, "StaleDataError"))
               /\ UNCHANGED store
          ELSE /\ store' = flush_update(store, q.loaded, updated_channel)
               /\ SetRequest(r, Done(q, "ok"))

Flag(op) == op = "enable_channel"

(* enable_channel / disable_channel up to the construction of the updated  *)
(* channel                                                                 *)
toggle_read(r) ==
    LET q == inflight[r]
    IN /\ q.op \in {"enable_channel", "disable_channel"} /\ q.at = "read"
       /\ UNCHANGED store
       /\ IF GetCheck(q.id) # "ok"
          THEN SetRequest(r, Done(q, GetCheck(q.id)))
          ELSE IF get_by_id(store, q.id).enabled = Flag(q.op)
          THEN SetRequest(r, Done([q EXCEPT !.loaded = get_by_id(store, q.id)], "ok"))
          ELSE SetRequest(r, [q EXCEPT !.at = "write",
                                       !.loaded = get_by_id(store, q.id)])

(* mutant of toggle_write: the request answers without its commit *)
toggle_write_uncommitted(r) ==
    LET q == inflight[r]
    IN /\ q.op \in {"enable_channel", "disable_channel"} /\ q.at = "write"
       /\ SetRequest(r, Done(q, "ok"))
       /\ UNCHANGED store

toggle_write(r) ==
    LET q == inflight[r]
        updated_channel == ChannelModel([model_dump(q.loaded) EXCEPT !.enabled = Flag(q.op)])
    IN /\ q.op \in {"enable_channel", "disable_channel"} /\ q.at = "write"
       /\ IF ~Found(get_by_id(store, q.id))
          THEN /\ SetRequest(r, Done(q, "StaleDataError"))
               /\ UNCHANGED store
          ELSE /\ store' = flush_update(store, q.loaded, updated_channel)
               /\ SetRequest(r, Done(q, "ok"))

(* delete_channel up to the call of the store's delete *)
delete_read(r) ==
    LET q == inflight[r]
    IN /\ q.op = "delete_channel" /\ q.at = "read"
       /\ UNCHANGED store
       /\ IF GetCheck(q.id) # "ok"
          THEN SetRequest(r, Done(q, GetCheck(q.id)))
          ELSE SetRequest(r, [q EXCEPT !.at = "write"])

(* the store's delete looks the row up again: delete_channel returns its   *)
(* False when the row is gone by then                                      *)
delete_write(r) ==
    LET q == inflight[r]
    IN /\ q.op = "delete_channel" /\ q.at = "write"
       /\ IF ~Found(get_by_id(store, q.id))
          THEN /\ SetRequest(r, Done(q, "False"))
               /\ UNCHANGED store
          ELSE /\ store' = delete(store, q.id)
               /\ SetRequest(r, Done(q, "ok"))

RequestStep(r) ==
    \/ create_check(r)
    \/ create_insert(r)
    \/ update_read(r)
    \/ update_write(r)
    \/ toggle_read(r)
    \/ toggle_write(r)
    \/ delete_read(r)
    \/ delete_write(r)

(* the history variable gate after a request step that left request q: a   *)
(* successful enable_channel or disable_channel is noted for its id, and a *)
(* later successful delete_channel, or update_channel carrying the flag,   *)
(* marks the note as touched                                               *)
GateAfter(g, q) ==
    IF q.at # "done" \/ q.outcome # "ok" THEN g
    ELSE IF q.op \in {"enable_channel", "disable_channel"}
    THEN [x \in DOMAIN g \cup {q.id} |->
             IF x = q.id THEN [by |-> q.op, touched |-> FALSE] ELSE g[x]]
    ELSE IF /\ q.id \in DOMAIN g
            /\ \/ q.op = "delete_channel"
               \/ q.op = "update_channel" /\ "enabled" \in DOMAIN q.data
    THEN [g EXCEPT ![q.id].touched = TRUE]
    ELSE g

(* Processing calls of one worker while another worker serves management   *)
(* requests on the same channel                                            *)
ProcessingRequestInputs ==
    { Request("create_channel", "c1", PlainData("c1", TRUE)),
      Request("update_channel", "c1", [enabled |-> TRUE]),
      Request("update_channel", "c1", [destinations |-> <<DictTCPDestination>>]),
      Request("enable_channel", "c1", Nothing),
      Request("disable_channel", "c1", Nothing),
      Request("delete_channel", "c1", Nothing) }

ProcessingBegin ==
    /\ \E req \in ProcessingRequestInputs : Begin("r1", req)
    /\ UNCHANGED <<last, pvars, gate>>

ProcessingRequestStep ==
    /\ RequestStep("r1")
    /\ gate' = GateAfter(gate, inflight'["r1"])
    /\ UNCHANGED <<last, pvars>>

(* channel objects a caller of process_message constructs itself *)
TypedCallChannels ==
    { TypedScenario("c1", TRUE),
      [TypedScenario("c1", TRUE) EXCEPT !.filters = <<PythonScriptFilterConfig("raise")>>] }

TypedCall ==
    /\ pc = "idle"
    /\ UNCHANGED cvars
    /\ \E ch \in TypedCallChannels, msg \in Messages : process_message(ch, msg)

NextProcessing ==
    \/ ProcessingBegin
    \/ ProcessingRequestStep
    \/ CheckedCall
    \/ EndpointCall
    \/ TypedCall
    \/ PipelineStep

SpecProcessing == Init /\ [][NextProcessing]_vars

(* Two management requests on one channel served by two workers *)
ConcurrentRequestInputs ==
    { Request("create_channel", "c1", PlainData("c1", TRUE)),
      Request("create_channel", "c1", ScenarioData("c1", FALSE)),
      Request("update_channel", "c1", [name |-> Name(0, 2)]),
      Request("enable_channel", "c1", Nothing),
      Request("disable_channel", "c1", Nothing),
      Request("delete_channel", "c1", Nothing) }

ConcurrentBegin ==
    /\ \E r \in Requests, req \in ConcurrentRequestInputs : Begin(r, req)
    /\ UNCHANGED <<last, pvars, gate>>

ConcurrentRequestStep ==
    /\ \E r \in Requests : RequestStep(r)
    /\ UNCHANGED <<last, pvars, gate>>

NextConcurrent ==
    \/ ConcurrentBegin
    \/ ConcurrentRequestStep

SpecConcurrent == Init /\ [][NextConcurrent]_vars

(* The store's methods called directly, each in a session of its own *)
repo_get_by_id(channel_id) ==
    /\ UNCHANGED store
    /\ last' = Outcome("ChannelRepository.get_by_id", Nothing, channel_id, "ok", None,
                       get_by_id(store, channel_id), <<>>)

repo_get_all ==
    /\ UNCHANGED store
    /\ last' = Outcome("ChannelRepository.get_all", Nothing, None, "ok", None,
                       [channels |-> get_all(store)], <<>>)

repo_add(ch) ==
    IF Found(get_by_id(store, ch.id))
    THEN /\ UNCHANGED store
         /\ last' = Outcome("ChannelRepository.add", ch, ch.id, "IntegrityError", None,
                            Nothing, <<>>)
    ELSE /\ store' = add(store, ch)
         /\ last' = Outcome("ChannelRepository.add", ch, ch.id, "ok", None, AddedRow(ch), <<>>)

(* mutant of repo_update: a channel that is not in the table is inserted *)
repo_update_upsert(ch) ==
    /\ store' = add(store, ch)
    /\ last' = Outcome("ChannelRepository.update", ch, ch.id, "ok", None, AddedRow(ch), <<>>)

repo_update(ch) ==
    IF ~Found(get_by_id(store, ch.id))
    THEN /\ UNCHANGED store
         /\ last' = Outcome("ChannelRepository.update", ch, ch.id, "ValueError", None,
                            Nothing, <<>>)
    ELSE /\ store' = update(store, ch)
         /\ last' = Outcome("ChannelRepository.update", ch, ch.id, "ok", None,
                            update(store, ch)[ch.id], <<>>)

repo_delete(channel_id) ==
    IF ~Found(get_by_id(store, channel_id))
    THEN /\ UNCHANGED store
         /\ last' = Outcome("ChannelRepository.delete", Nothing, channel_id, "ok", None,
                            [value |-> FALSE], <<>>)
    ELSE /\ store' = delete(store, channel_id)
         /\ last' = Outcome("ChannelRepository.delete", Nothing, channel_id, "ok", None,
                            [value |-> TRUE], <<>>)

StoreChannels ==
    {ChannelModel(PlainData(id, en)) : id \in Ids, en \in BOOLEAN}
        \cup {TypedScenario(id, TRUE) : id \in Ids}

StoreCall ==
    /\ UNCHANGED pvars
    /\ UNCHANGED cvars
    /\ \/ \E id \in Ids : repo_get_by_id(id)
       \/ repo_get_all
       \/ \E ch \in StoreChannels : repo_add(ch)
       \/ \E ch \in StoreChannels : repo_update(ch)
       \/ \E id \in Ids : repo_delete(id)

NextStore == StoreCall

SpecStore == Init /\ [][NextStore]_vars

----------------------------------------------------------------------------
(* Properties *)

Range(seq) == {seq[k] : k \in DOMAIN seq}

(* C1: process_message_with_checks enters the pipeline only for a stored,  *)
(* enabled channel; for an absent id it fails with NotFound, for a         *)
(* disabled channel with Disabled, and then no stage is executed.          *)
C1_ChecksGatePipeline ==
    /\ [](pc # "idle" /\ last.op = "process_message_with_checks"
            => channel.enabled /\ last.outcome = "invoked")
    /\ [][ (pc = "idle" /\ last'.op = "process_message_with_checks") =>
             IF last'.id \in DOMAIN store /\ store[last'.id].enabled
             THEN /\ last'.outcome = "invoked"
                  /\ pc' = "filtering"
                  /\ channel' = store[last'.id]
             ELSE /\ last'.outcome =
                        (IF last'.id \in DOMAIN store THEN "Disabled" ELSE "NotFound")
                  /\ pc' = "idle"
                  /\ executed' = <<>>
                  /\ results' = <<>> ]_vars

C1_Witness ==
    /\ last.op = "process_message_with_checks"
    /\ last.outcome = "Disabled"
    /\ last.id \in DOMAIN store
    /\ ~store[last.id].enabled
    /\ pc = "idle"
    /\ executed = <<>>

(* the message the k-th filter script is given when the scripts before it  *)
(* ran in configured order                                                 *)
RECURSIVE MessageAtFilter(_, _, _)
MessageAtFilter(fs, m, k) ==
    IF k = 1 THEN m
    ELSE ExecFilterScript(fs[k - 1].script, MessageAtFilter(fs, m, k - 1)).message

FilterScriptPasses(fs, m, k) ==
    LET lv == ExecFilterScript(fs[k].script, MessageAtFilter(fs, m, k))
    IN ~lv.raised /\ lv.passed

FilterScriptRejects(fs, m, k) ==
    LET lv == ExecFilterScript(fs[k].script, MessageAtFilter(fs, m, k))
    IN ~lv.raised /\ ~lv.passed

(* C2: if the scripts of filters 1..k-1 pass and the script of filter k    *)
(* leaves the pass flag unset or false, the result is 'filtered' and no    *)
(* later filter, no transformer and no destination is executed.            *)
C2_RejectingFilterHalts ==
    pc # "idle" =>
        \A k \in 1..Len(channel.filters) :
            ( /\ \A j \in 1..(k - 1) :
                    FilterScriptPasses(channel.filters, original_message, j)
              /\ FilterScriptRejects(channel.filters, original_message, k) )
            => /\ pc = "done" => result.status = "filtered"
               /\ \A e \in DOMAIN executed :
                    executed[e].stage = "filter" /\ executed[e].index <= k

(* C3: a transformer whose script runs without raising and does not assign *)
(* the output variable leaves the current message as it was, and           *)
(* processing continues.                                                   *)
C3_UnsetOutputKeepsMessage ==
    [][ ( /\ pc = "transforming"
          /\ i <= Len(channel.transformers)
          /\ IsInstance(channel.transformers[i], "PythonScriptTransformerConfig")
          /\ channel.transformers[i].script \in {"noassign", "del"} )
        => /\ message' = message
           /\ pc' = "transforming"
           /\ i' = i + 1 ]_vars

(* the message a stage's script left *)
StageOutput(e) ==
    IF e.stage = "filter"
    THEN ExecFilterScript(e.config.script, e.message).message
    ELSE LET lv == ExecTransformerScript(e.config.script, e.message)
         IN IF lv.has_out THEN lv.out ELSE e.message

ScriptEvents == SelectSeq(executed, LAMBDA e : e.stage # "destination")

LastStageMessage ==
    IF ScriptEvents = <<>> THEN original_message
    ELSE StageOutput(ScriptEvents[Len(ScriptEvents)])

(* C4: on 'success' processed_message is the message of the last stage     *)
(* that ran (the original input when none ran), and it is the message      *)
(* handed to every destination.                                            *)
C4_ProcessedMessageIsLastStageOutput ==
    (pc = "done" /\ result.status = "success") =>
        /\ result.processed_message = LastStageMessage
        /\ \A e \in DOMAIN executed :
              executed[e].stage = "destination"
                 => executed[e].message = result.processed_message

(* the destinations whose send raises *)
Raisers(ds) == {j \in DOMAIN ds : send_to_single_destination(ds[j], None).raised}

(* C5: with exactly one destination raising, dispatch does not propagate   *)
(* the exception: every destination gets its entry in configured order,    *)
(* the raising one with status 'error' and the failure text, every other   *)
(* one the entry its own send returns ('sent' or 'skipped').               *)
C5_FailureIsolatedPerDestination ==
    ( /\ pc # "idle"
      /\ Cardinality(Raisers(channel.destinations)) = 1
      /\ \E e \in DOMAIN executed : executed[e].stage = "destination" )
    => /\ pc \in {"dispatching", "done"}
       /\ pc = "dispatching" => Len(results) = i - 1
       /\ \A j \in DOMAIN results :
             IF j \in Raisers(channel.destinations)
             THEN /\ results[j].status = "error"
                  /\ results[j].error =
                        send_to_single_destination(channel.destinations[j], message).error
             ELSE /\ results[j] =
                        send_to_single_destination(channel.destinations[j], message).value
                  /\ results[j].status \in {"sent", "skipped"}
       /\ pc = "done" =>
             /\ result.status = "success"
             /\ result.destination_results = results
             /\ Len(results) = Len(channel.destinations)

C5_Witness ==
    /\ pc = "done"
    /\ Len(channel.destinations) = 2
    /\ Raisers(channel.destinations) = {1}
    /\ Len(results) = 2
    /\ results[1].status = "error"
    /\ results[2].status = "sent"

(* the scenario channel: one python_script filter passing exactly the      *)
(* messages with key x, no transformer, one HTTP destination               *)
IsScenarioChannel(ch) ==
    /\ Len(ch.filters) = 1
    /\ ch.filters[1].type = "python_script"
    /\ ch.filters[1].script = "has_x"
    /\ Len(ch.transformers) = 0
    /\ Len(ch.destinations) = 1
    /\ ch.destinations[1].type = "http"

(* C6: processing by id through the stored scenario channel: a message     *)
(* with key x gives 'success' and the single entry {http, sent, url}, a    *)
(* message without it gives 'filtered'.                                    *)
C6_StoredScenarioFilters ==
    ( /\ pc = "done"
      /\ last.op = "process_message_with_checks"
      /\ IsScenarioChannel(channel) )
    => IF HasKeyX(original_message)
       THEN /\ result.status = "success"
            /\ result.destination_results =
                  <<[destination_type |-> "http", status |-> "sent",
                     url |-> channel.destinations[1].url]>>
       ELSE result.status = "filtered"

(* a create request on an id the store holds *)
CreateOnPresentId ==
    /\ pc = "idle"
    /\ last'.op \in {"create_channel", "create_channel_with_checks"}
    /\ last'.id \in DOMAIN store

(* C7 as stated: creating with an id the store holds fails with            *)
(* AlreadyExists, calls neither add nor update and leaves every stored     *)
(* channel unchanged.                                                      *)
C7_DuplicateIsAlreadyExists ==
    [][ CreateOnPresentId =>
          /\ last'.outcome = "AlreadyExists"
          /\ store' = store
          /\ Range(last'.calls) \cap {"add", "update"} = {} ]_vars

(* C7 amended: as C7, but create_channel validates first, so data that     *)
(* fails validation is answered with ValidationError also on a present id. *)
C7_DuplicateRejectedStoreUnchanged ==
    [][ CreateOnPresentId =>
          /\ last'.outcome =
                (IF /\ last'.op = "create_channel"
                    /\ validate_channel_creation_data(last'.arg) # "ok"
                 THEN "ValidationError" ELSE "AlreadyExists")
          /\ store' = store
          /\ Range(last'.calls) \cap {"add", "update"} = {} ]_vars

C7_Witness ==
    /\ last.op = "create_channel"
    /\ last.outcome = "AlreadyExists"
    /\ last.id \in DOMAIN store
    /\ store[last.id] # AddedRow(ChannelModel(last.arg))
    /\ last.calls = <<"get_by_id">>

(* C8: enable_channel on an enabled channel and disable_channel on a       *)
(* disabled one return the channel unchanged and call no update; after     *)
(* either operation the flag has the value asked for, so a second          *)
(* application changes nothing.                                            *)
C8_ToggleIdempotent ==
    [][ ( /\ pc = "idle"
          /\ last'.op \in {"enable_channel", "disable_channel"}
          /\ last'.id \in DOMAIN store )
        => LET flag == (last'.op = "enable_channel")
               row == store[last'.id]
           IN /\ last'.outcome = "ok"
              /\ store'[last'.id].enabled = flag
              /\ row.enabled = flag =>
                    /\ last'.ret = row
                    /\ store' = store
                    /\ "update" \notin Range(last'.calls) ]_vars

C8_Witness ==
    /\ last.op = "disable_channel"
    /\ last.outcome = "ok"
    /\ last.calls = <<"get_by_id">>
    /\ last.ret = store[last.id]
    /\ ~last.ret.enabled

(* the record has the name, source, filters, transformers and destinations *)
(* of the creation data                                                    *)
SameConfiguration(row, data) ==
    /\ Found(row)
    /\ row.name = data.name
    /\ row.source = data.source
    /\ row.filters = DictGet(data, "filters", <<>>)
    /\ row.transformers = DictGet(data, "transformers", <<>>)
    /\ row.destinations = data.destinations

CreateWithNoDestinations ==
    /\ pc = "idle"
    /\ last'.op = "create_channel"
    /\ "destinations" \in DOMAIN last'.arg
    /\ Len(last'.arg.destinations) = 0

(* C10 as stated: create_channel with an empty destinations list fails     *)
(* with ValidationError on field 'destinations' and adds nothing.          *)
C10_EmptyDestinationsField ==
    [][ CreateWithNoDestinations =>
          /\ last'.outcome = "ValidationError"
          /\ last'.field = "destinations"
          /\ store' = store
          /\ last'.calls = <<>> ]_vars

(* C10 amended: it fails with a ValidationError and adds nothing; the      *)
(* field is 'destinations' when name and source are present and the name   *)
(* is valid, the earlier checks name their own field otherwise.            *)
C10_EmptyDestinationsRejected ==
    [][ CreateWithNoDestinations =>
          /\ last'.outcome = "ValidationError"
          /\ store' = store
          /\ last'.calls = <<>>
          /\ last'.field =
                (IF "name" \notin DOMAIN last'.arg THEN "name"
                 ELSE IF "source" \notin DOMAIN last'.arg THEN "source"
                 ELSE IF last'.arg.name.body = 0 \/ last'.arg.name.body > MaxNameLen
                 THEN "name"
                 ELSE "destinations") ]_vars

C10_Witness ==
    /\ last.op = "create_channel"
    /\ last.outcome = "ValidationError"
    /\ last.field = "destinations"
    /\ "destinations" \in DOMAIN last.arg
    /\ Len(last.arg.destinations) = 0
    /\ last.id \notin DOMAIN store

(* C11: when a filter script sets the pass flag and rebinds message, the   *)
(* rebound value is the message the next stage that runs is given: the     *)
(* next filter, else the first transformer, else the destinations.         *)
C11_ReboundMessageIsCurrent ==
    \A e \in DOMAIN executed :
        ( /\ e < Len(executed)
          /\ executed[e].stage = "filter"
          /\ executed[e].config.script = "rebind" )
        => executed[e + 1].message = "MT"

StageRank(stage) ==
    CASE stage = "filter" -> 1
      [] stage = "transformer" -> 2
      [] stage = "destination" -> 3

(* the script of stage event e ran to its end and, for a filter, passed *)
StageCompleted(e) ==
    IF e.stage = "filter"
    THEN LET lv == ExecFilterScript(e.config.script, e.message)
         IN ~lv.raised /\ lv.passed
    ELSE IF e.stage = "transformer"
    THEN ~ExecTransformerScript(e.config.script, e.message).raised
    ELSE TRUE

(* C12: the stages run in the order filters, transformers, destinations,   *)
(* each list in configured order; a stage runs only after the one before   *)
(* it completed; the first transformer is given the message that left the  *)
(* filter stage and transformer k the output of transformer k-1; no        *)
(* destination is contacted before the last transformer completed.         *)
C12_StagesInOrder ==
    \A e \in DOMAIN executed :
        LET ev == executed[e]
        IN /\ e > 1 =>
                LET prev == executed[e - 1]
                IN /\ StageRank(prev.stage) <= StageRank(ev.stage)
                   /\ prev.stage = ev.stage => prev.index < ev.index
                   /\ StageCompleted(prev)
           /\ ev.stage = "transformer" =>
                ev.message = (IF e = 1 THEN original_message
                              ELSE StageOutput(executed[e - 1]))
           /\ ev.stage # "filter" =>
                \A k \in DOMAIN channel.filters :
                    IsInstance(channel.filters[k], "PythonScriptFilterConfig") =>
                        \E f \in 1..(e - 1) :
                            executed[f].stage = "filter" /\ executed[f].index = k
           /\ ev.stage = "destination" =>
                \A k \in DOMAIN channel.transformers :
                    IsInstance(channel.transformers[k], "PythonScriptTransformerConfig") =>
                        \E f \in 1..(e - 1) :
                            executed[f].stage = "transformer" /\ executed[f].index = k

(* the stage events of the running call whose script raised *)
RaisedEvents(stage) ==
    {e \in DOMAIN executed :
        /\ executed[e].stage = stage
        /\ IF stage = "filter"
           THEN ExecFilterScript(executed[e].config.script, executed[e].message).raised
           ELSE ExecTransformerScript(executed[e].config.script,
                                      executed[e].message).raised}

(* C13: a transformer script that raises ends the call with the returned   *)
(* result {status 'error', message with the failure text}; no later        *)
(* transformer and no destination is executed.                             *)
C13_TransformerErrorHalts ==
    \A e \in RaisedEvents("transformer") :
        /\ e = Len(executed)
        /\ pc = "done"
        /\ result.status = "error"
        /\ result.message =
              <<"Transformer script error",
                ExecTransformerScript(executed[e].config.script,
                                      executed[e].message).error>>
        /\ results = <<>>

C13_Witness ==
    /\ pc = "done"
    /\ result.status = "error"
    /\ Len(channel.transformers) = 2
    /\ Len(channel.destinations) > 0
    /\ Len(executed) = 1
    /\ RaisedEvents("transformer") = {1}
    /\ executed[1].index = 1

(* C14: a filter script that raises ends the call with the returned result *)
(* {status 'error', message with the failure text}, not 'filtered'; no     *)
(* later filter, no transformer and no destination is executed.            *)
C14_FilterErrorHalts ==
    \A e \in RaisedEvents("filter") :
        /\ e = Len(executed)
        /\ pc = "done"
        /\ result.status = "error"
        /\ result.message =
              <<"Filter script error",
                ExecFilterScript(executed[e].config.script, executed[e].message).error>>
        /\ \A f \in DOMAIN executed : executed[f].stage = "filter"
        /\ results = <<>>

C14_Witness ==
    /\ pc = "done"
    /\ result.status = "error"
    /\ Len(channel.filters) = 2
    /\ Len(channel.transformers) > 0
    /\ Len(executed) = 1
    /\ RaisedEvents("filter") = {1}
    /\ executed[1].index = 1

(* the type tag a configured destination carries, "unknown" without one *)
TypeTag(d) == IF "type" \in DOMAIN d /\ d.type \notin {None, ""} THEN d.type ELSE "unknown"

(* the outcome r describes the configured destination d *)
Describes(r, d) ==
    /\ r.destination_type = TypeTag(d)
    /\ r.status \in {"sent", "skipped", "error"}
    /\ (r.status = "sent" /\ r.destination_type = "http") => r.url = DictGet(d, "url", None)
    /\ (r.status = "sent" /\ r.destination_type = "tcp") => r.host = DictGet(d, "host", None)

(* C15: the dispatcher returns exactly one outcome per configured          *)
(* destination, the outcome at index j describing the destination at       *)
(* index j: none is omitted and none appears twice.                        *)
C15_OneOutcomePerDestination ==
    /\ pc = "dispatching" =>
          /\ Len(results) = i - 1
          /\ \A j \in DOMAIN results : Describes(results[j], channel.destinations[j])
    /\ (pc = "done" /\ result.status = "success") =>
          /\ Len(result.destination_results) = Len(channel.destinations)
          /\ \A j \in DOMAIN channel.destinations :
                Describes(result.destination_results[j], channel.destinations[j])

C15_Witness ==
    /\ pc = "done"
    /\ result.status = "success"
    /\ Len(channel.destinations) = 2
    /\ Len(result.destination_results) = 2
    /\ result.destination_results[1].status = "skipped"
    /\ result.destination_results[2].status = "sent"
    /\ result.destination_results[2].destination_type = "tcp"
    /\ channel.destinations[2].cls = "dict"

(* C16: a call moves Start -> Filtering -> Transforming -> Dispatching ->   *)
(* Done; it ends as 'filtered' only from Filtering and as 'error' only     *)
(* from Filtering or Transforming; once Dispatching is reached it always   *)
(* ends in Done with status 'success'.                                     *)
C16_StateMachine ==
    /\ [][ pc' # pc =>
             /\ <<pc, pc'>> \in { <<"idle", "filtering">>,
                                  <<"filtering", "transforming">>,
                                  <<"filtering", "done">>,
                                  <<"transforming", "dispatching">>,
                                  <<"transforming", "done">>,
                                  <<"dispatching", "done">>,
                                  <<"done", "idle">> }
             /\ pc' = "done" =>
                  result'.status \in
                      (CASE pc = "filtering" -> {"filtered", "error"}
                         [] pc = "transforming" -> {"error"}
                         [] OTHER -> {"success"}) ]_vars
    /\ (pc = "dispatching") ~> (pc = "done" /\ result.status = "success")

C16_Witness ==
    /\ pc = "done"
    /\ result.status = "success"
    /\ Len(result.destination_results) = 2
    /\ result.destination_results[1].status = "error"
    /\ result.destination_results[2].status = "skipped"

(* C17: a destination whose type tag is missing or is neither http nor tcp *)
(* gets the outcome 'skipped', never 'error' and never an exception.       *)
C17_UnresolvedIsSkipped ==
    pc # "idle" =>
    /\ \A d \in Range(channel.destinations) :
          TypeTag(d) \notin {"http", "tcp"} =>
              /\ ~send_to_single_destination(d, message).raised
              /\ send_to_single_destination(d, message).value.status = "skipped"
    /\ \A j \in DOMAIN results :
          TypeTag(channel.destinations[j]) \notin {"http", "tcp"} =>
              results[j].status = "skipped"

C17_Witness ==
    /\ pc = "done"
    /\ Len(channel.destinations) = 2
    /\ "type" \notin DOMAIN channel.destinations[1]
    /\ TypeTag(channel.destinations[2]) = "ftp"
    /\ result.destination_results[1] = [destination_type |-> "unknown", status |-> "skipped"]
    /\ result.destination_results[2] = [destination_type |-> "ftp", status |-> "skipped"]

(* the entries of a result reported as unrecognized *)
Unrecognized(r) == IF "unrecognized" \in DOMAIN r THEN r.unrecognized ELSE {}

(* the stage entry at index k was executed or is reported as unrecognized *)
Consumed(stage, k) ==
    \/ \E e \in DOMAIN executed : executed[e].stage = stage /\ executed[e].index = k
    \/ <<stage, k>> \in Unrecognized(result)

(* C18: every filter and transformer entry is executed or reported as      *)
(* unrecognized; the pipeline never skips an entry and goes on as if it    *)
(* had passed.                                                             *)
C18_NoEntrySkipped ==
    /\ pc \in {"transforming", "dispatching"} =>
          \A k \in DOMAIN channel.filters : Consumed("filter", k)
    /\ pc = "dispatching" =>
          \A k \in DOMAIN channel.transformers : Consumed("transformer", k)
    /\ (pc = "done" /\ result.status = "success") =>
          /\ \A k \in DOMAIN channel.filters : Consumed("filter", k)
          /\ \A k \in DOMAIN channel.transformers : Consumed("transformer", k)

(* the mapping resolves to a concrete source variant: a known type tag and *)
(* the fields the variant requires                                         *)
WellFormedSource(c) ==
    /\ "type" \in DOMAIN c
    /\ \/ c.type = "http" /\ {"path", "method"} \subseteq DOMAIN c
       \/ c.type = "tcp" /\ "port" \in DOMAIN c

WellFormedScript(c) ==
    /\ "type" \in DOMAIN c
    /\ c.type = "python_script"
    /\ "script" \in DOMAIN c

WellFormedDestination(c) ==
    /\ "type" \in DOMAIN c
    /\ \/ c.type = "http" /\ "url" \in DOMAIN c
       \/ c.type = "tcp" /\ {"host", "port"} \subseteq DOMAIN c

(* some configuration entry of the creation data resolves to no variant *)
IllFormedData(data) ==
    \/ "source" \in DOMAIN data /\ ~WellFormedSource(data.source)
    \/ \E c \in Range(DictGet(data, "filters", <<>>)) : ~WellFormedScript(c)
    \/ \E c \in Range(DictGet(data, "transformers", <<>>)) : ~WellFormedScript(c)
    \/ \E c \in Range(DictGet(data, "destinations", <<>>)) : ~WellFormedDestination(c)

(* C19: create_channel with a configuration entry whose type tag is        *)
(* missing or unknown, or that lacks a field its variant requires, fails   *)
(* and stores no channel.                                                  *)
C19_IllFormedConfigRejected ==
    [][ ( /\ pc = "idle"
          /\ last'.op = "create_channel"
          /\ IllFormedData(last'.arg) )
        => /\ last'.outcome \notin {"ok"}
           /\ store' = store ]_vars

(* the row has its source and every filter, transformer and destination    *)
(* as an instance of a config class                                        *)
Resolved(row) ==
    /\ row.source.cls \notin {"dict"}
    /\ \A c \in Range(row.filters) \cup Range(row.transformers) \cup Range(row.destinations) :
          c.cls \notin {"dict"}

(* C20: every channel the store returns (get_by_id, get_all, the results   *)
(* of add and update) has its source, filters, transformers and            *)
(* destinations resolved to concrete config variants.                      *)
C20_StoreReturnsResolved ==
    /\ \A row \in get_all(store) : Resolved(row)
    /\ \A id \in DOMAIN store : Resolved(get_by_id(store, id))
    /\ (last.outcome = "ok" /\ Range(last.calls) \cap {"add", "update"} # {})
          => Resolved(last.ret)

(* a name of 1 to 100 characters *)
NameInRange(name) == StrLen(name) >= 1 /\ StrLen(name) <= MaxNameLen

(* C21: after any sequence of management operations every stored channel   *)
(* has a name of 1 to 100 characters and at least one destination.         *)
C21_StoredChannelsValid ==
    \A id \in DOMAIN store :
        /\ NameInRange(store[id].name)
        /\ Len(store[id].destinations) >= 1

(* the field a constructor argument offends, "none" when it offends none *)
OffendingField(data) ==
    IF ~NameInRange(data.name) THEN "name"
    ELSE IF Len(data.destinations) = 0 THEN "destinations"
    ELSE "none"

(* C22: constructing a ChannelModel with an empty name, a name longer than *)
(* 100 characters or an empty destinations list is rejected with a         *)
(* validation error naming the field; no such object reaches an operation. *)
C22_ConstructionRejectsInvalid ==
    /\ \A data \in ChannelModelData :
          OffendingField(data) # "none" =>
              /\ NewChannelModel(data).raised
              /\ NewChannelModel(data).field = OffendingField(data)
    /\ last.op = "create_channel_with_checks" => OffendingField(last.arg) = "none"

(* a management request of kind op is answered in this step *)
Answered(op) == pc = "idle" /\ last'.op = op

(* C23: update_channel never changes the id of a stored channel: the       *)
(* updated record keeps the id also when the data carry another one, no    *)
(* record with the other id is created or changed, and the set of stored   *)
(* ids is the same before and after.                                       *)
C23_UpdateKeepsId ==
    [][ Answered("update_channel") =>
          /\ DOMAIN store' = DOMAIN store
          /\ \A x \in DOMAIN store' : store'[x].id = x
          /\ \A x \in DOMAIN store \ {last'.id} : store'[x] = store[x]
          /\ last'.outcome # "ValueError"
          /\ last'.outcome = "ok" => last'.ret.id = last'.id ]_vars

C23_Witness ==
    /\ last.op = "update_channel"
    /\ last.outcome = "ok"
    /\ "id" \in DOMAIN last.arg
    /\ last.arg.id # last.id
    /\ last.arg.id \in DOMAIN store
    /\ store[last.id].id = last.id
    /\ store[last.id].name = last.arg.name

(* C24: get_channel_by_id, update_channel, delete_channel, enable_channel  *)
(* and disable_channel on an id that is not in the store fail with         *)
(* NotFound for that id, call no update, delete or add, and leave the      *)
(* store unchanged.                                                        *)
C24_AbsentIdIsNotFound ==
    [][ ( /\ pc = "idle"
          /\ last'.op \in {"get_channel_by_id", "update_channel", "delete_channel",
                           "enable_channel", "disable_channel"}
          /\ last'.id \notin DOMAIN store
          /\ last'.id \notin {None, ""} )
        => /\ last'.outcome = "NotFound"
           /\ last'.ret = Nothing
           /\ Range(last'.calls) \cap {"add", "update", "delete"} = {}
           /\ store' = store ]_vars

C24_Witness ==
    /\ last.op = "update_channel"
    /\ last.outcome = "NotFound"
    /\ last.id \notin DOMAIN store
    /\ store # EmptyStore
    /\ last.calls = <<"get_by_id">>

(* C25: delete_channel on a stored channel removes exactly that channel:   *)
(* every other channel is unchanged, a following get_channel_by_id or      *)
(* delete_channel on the id fails with NotFound and a following            *)
(* get_all_channels does not contain it.                                   *)
C25_DeleteRemovesExactlyThat ==
    /\ [][ (Answered("delete_channel") /\ last'.id \in DOMAIN store) =>
             /\ last'.outcome = "ok"
             /\ DOMAIN store' = DOMAIN store \ {last'.id}
             /\ \A x \in DOMAIN store' : store'[x] = store[x]
             /\ \A row \in get_all(store') : row.id # last'.id ]_vars
    /\ [][ ( /\ last.op = "delete_channel"
             /\ last.outcome = "ok"
             /\ last'.op \in {"get_channel_by_id", "delete_channel"}
             /\ last'.id = last.id )
           => last'.outcome = "NotFound" ]_vars
    /\ [][ ( /\ last.op = "delete_channel"
             /\ last.outcome = "ok"
             /\ last'.op = "get_all_channels" )
           => \A row \in last'.ret.channels : row.id # last.id ]_vars

C25_Witness ==
    /\ last.op = "delete_channel"
    /\ last.outcome = "ok"
    /\ last.id \notin DOMAIN store
    /\ store # EmptyStore
    /\ last.calls = <<"get_by_id", "delete">>

(* the creation data carry no usable id *)
WithoutId(data) == DictGet(data, "id", None) \in {None, ""}

(* C26: create_channel without an id generates one, looks the generated id *)
(* up in the store before inserting and returns a channel carrying it; an  *)
(* id supplied by the caller is kept as given.                             *)
C26_GeneratedIdChecked ==
    [][ ( /\ Answered("create_channel")
          /\ validate_channel_creation_data(last'.arg) = "ok" )
        => /\ IF WithoutId(last'.arg)
              THEN last'.id \in UuidPool
              ELSE last'.id = last'.arg.id
           /\ Len(last'.calls) >= 1
           /\ last'.calls[1] = "get_by_id"
           /\ IF last'.id \in DOMAIN store
              THEN /\ last'.outcome = "AlreadyExists"
                   /\ store' = store
              ELSE /\ last'.outcome = "ok"
                   /\ last'.ret.id = last'.id
                   /\ DOMAIN store' = DOMAIN store \cup {last'.id}
                   /\ store'[last'.id] = last'.ret ]_vars

C26_Witness ==
    /\ last.op = "create_channel"
    /\ last.outcome = "ok"
    /\ "id" \notin DOMAIN last.arg
    /\ last.id \in UuidPool
    /\ last.ret.id = last.id
    /\ last.id \in DOMAIN store

(* C27: create_channel_with_checks rejects a channel whose id is absent or *)
(* empty without reading or writing the store, rejects a stored id with    *)
(* AlreadyExists without inserting, and otherwise inserts the channel once *)
(* and returns the stored channel.                                         *)
C27_CheckedCreateGuardsId ==
    [][ Answered("create_channel_with_checks") =>
          IF last'.id \in {None, ""}
          THEN /\ last'.outcome = "BadRequest"
               /\ last'.calls = <<>>
               /\ store' = store
          ELSE IF last'.id \in DOMAIN store
          THEN /\ last'.outcome = "AlreadyExists"
               /\ "add" \notin Range(last'.calls)
               /\ store' = store
          ELSE /\ last'.outcome = "ok"
               /\ last'.calls = <<"get_by_id", "add">>
               /\ store'[last'.id] = last'.ret ]_vars

(* C28: the processing endpoint answers a request on a disabled channel    *)
(* with 400 and a detail saying the channel is disabled, and a request on  *)
(* an absent channel with 404; neither is answered with 500.               *)
C28_EndpointStatusCodes ==
    [][ Answered("process_message_endpoint") =>
          /\ last'.id \notin DOMAIN store => last'.outcome = "404"
          /\ (last'.id \in DOMAIN store /\ ~store[last'.id].enabled) =>
                /\ last'.outcome = "400"
                /\ last'.field = "Channel is disabled." ]_vars

ChannelFields ==
    {"name", "description", "enabled", "source", "filters", "transformers", "destinations"}

(* C29: a successful update_channel is a partial merge: a field that is a  *)
(* key of the data takes the supplied value, every other field of the      *)
(* channel keeps its value, and no other channel changes; an update that   *)
(* fails changes nothing.                                                  *)
C29_UpdateIsPartialMerge ==
    [][ Answered("update_channel") =>
          IF last'.outcome = "ok"
          THEN /\ \A f \in ChannelFields :
                     store'[last'.id][f] = IF f \in DOMAIN last'.arg
                                           THEN last'.arg[f]
                                           ELSE store[last'.id][f]
               /\ \A x \in DOMAIN store \ {last'.id} : store'[x] = store[x]
               /\ last'.ret = store'[last'.id]
          ELSE store' = store ]_vars

C29_Witness ==
    /\ last.op = "update_channel"
    /\ last.outcome = "ok"
    /\ DOMAIN last.arg = {"enabled", "destinations"}
    /\ store[last.id].destinations = last.arg.destinations
    /\ ~store[last.id].enabled
    /\ store[last.id].name = Name(1, 100)
    /\ Len(store[last.id].filters) = 1

InvalidUpdateFields(data) ==
    {f \in {"name"} : /\ "name" \in DOMAIN data
                      /\ \/ StrLen(Strip(data.name)) = 0
                         \/ StrLen(data.name) > MaxNameLen}
        \cup {f \in {"destinations"} : /\ "destinations" \in DOMAIN data
                                       /\ Len(data.destinations) = 0}

(* C31: update_channel on a stored channel whose data contain an empty     *)
(* destinations list, a blank name or a name longer than 100 characters    *)
(* fails with ValidationError naming that field and leaves the stored      *)
(* channel unchanged.                                                      *)
C31_InvalidUpdateRejected ==
    [][ ( /\ Answered("update_channel")
          /\ last'.id \in DOMAIN store
          /\ InvalidUpdateFields(last'.arg) # {} )
        => /\ last'.outcome = "ValidationError"
           /\ last'.field \in InvalidUpdateFields(last'.arg)
           /\ store' = store ]_vars

(* an untyped mapping that describes an http or a tcp destination with the *)
(* fields of the typed variant                                             *)
MappingOfKnownType(d) ==
    /\ IsInstance(d, "dict")
    /\ "type" \in DOMAIN d
    /\ \/ d.type = "http" /\ "url" \in DOMAIN d
       \/ d.type = "tcp" /\ {"host", "port"} \subseteq DOMAIN d

(* the typed variant with the same fields *)
TypedVariant(d) ==
    IF d.type = "http" THEN HTTPDestinationConfig(d.url)
    ELSE TCPDestinationConfig(d.host, d.port)

(* C34: a destination held as an untyped mapping whose type is http or tcp *)
(* is dispatched with the outcome of the typed variant with the same       *)
(* fields: status sent, the same destination type and the same url, or     *)
(* host and port.                                                          *)
C34_MappingDispatchedAsTyped ==
    \A j \in DOMAIN results :
        MappingOfKnownType(channel.destinations[j]) =>
            LET d == channel.destinations[j]
            IN /\ results[j] = DispatchOutcome(TypedVariant(d), message)
               /\ results[j].status = "sent"
               /\ results[j].destination_type = d.type
               /\ d.type = "http" => results[j].url = d.url
               /\ d.type = "tcp" => results[j].host = d.host /\ results[j].port = d.port

C34_Witness ==
    /\ pc = "done"
    /\ Len(results) = 2
    /\ channel.destinations = <<DictHTTPDestination, DictTCPDestination>>
    /\ results[1] = [destination_type |-> "http", status |-> "sent", url |-> "U1"]
    /\ results[2] = [destination_type |-> "tcp", status |-> "sent", host |-> "H1",
                     port |-> 6661]

(* C35: the result of a processing call has a status that is one of        *)
(* success, filtered and error; it carries the destination results exactly *)
(* when the status is success and a message text exactly when the status   *)
(* is filtered or error.                                                   *)
C35_ResultShape ==
    pc = "done" =>
        /\ result.status \in {"success", "filtered", "error"}
        /\ "destination_results" \in DOMAIN result <=> result.status = "success"
        /\ "message" \in DOMAIN result <=> result.status \in {"filtered", "error"}

C35_Witness ==
    /\ pc = "done"
    /\ result.status = "filtered"
    /\ "message" \in DOMAIN result
    /\ "destination_results" \notin DOMAIN result
    /\ executed # <<>>

(* C36: an enable_channel or disable_channel that changes the flag changes *)
(* nothing else: the channel's id, name, description, source, filters,     *)
(* transformers and destinations are the same before and after, no other   *)
(* channel changes and the set of stored ids is the same.                  *)
C36_ToggleChangesOnlyFlag ==
    [][ ( /\ Answered("enable_channel") \/ Answered("disable_channel")
          /\ last'.outcome = "ok"
          /\ store'[last'.id].enabled # store[last'.id].enabled )
        => /\ DOMAIN store' = DOMAIN store
           /\ \A f \in (ChannelFields \cup {"id"}) \ {"enabled"} :
                 store'[last'.id][f] = store[last'.id][f]
           /\ store'[last'.id].enabled = (last'.op = "enable_channel")
           /\ \A x \in DOMAIN store \ {last'.id} : store'[x] = store[x]
           /\ last'.ret = store'[last'.id] ]_vars

C36_Witness ==
    /\ last.op = "disable_channel"
    /\ last.calls = <<"get_by_id", "update">>
    /\ ~store[last.id].enabled
    /\ Len(store[last.id].filters) = 1
    /\ Len(store[last.id].transformers) = 1
    /\ Len(store[last.id].destinations) = 2
    /\ store[last.id].description = "desc"
    /\ DOMAIN store = {"c1", "c2"}

(* C32: a processing call never changes the store, whatever its outcome    *)
(* (success, filtered, error, rejection): every step that is not a step of *)
(* a management request leaves every stored channel as it was.             *)
C32_ProcessingLeavesStore ==
    [][ inflight' = inflight => store' = store ]_vars

C32_Witness ==
    /\ pc = "done"
    /\ result.status = "error"
    /\ executed # <<>>
    /\ channel.id \in DOMAIN store
    /\ store[channel.id].enabled
    /\ inflight["r1"].at = "write"

(* a process_message_with_checks call starts in this step *)
CheckedCallStarts ==
    /\ pc = "idle"
    /\ inflight' = inflight
    /\ last'.op = "process_message_with_checks"
    /\ pc' # pc \/ last' # last

(* what the enable / disable noted for the id of the starting call lets    *)
(* the call do                                                             *)
GatedOutcome ==
    IF gate[last'.id].by = "disable_channel"
    THEN /\ last'.outcome = "Disabled"
         /\ pc' = "idle"
         /\ executed' = <<>>
    ELSE /\ last'.outcome = "invoked"
         /\ pc' = "filtering"

(* C33 as stated: after disable_channel(id) succeeds, every                *)
(* process_message_with_checks(id, m) that starts before the next          *)
(* successful enable_channel(id) is rejected as Disabled with no stage     *)
(* run; after enable_channel(id) succeeds it runs the pipeline.            *)
C33_GateUntilNextToggle ==
    [][ (CheckedCallStarts /\ last'.id \in DOMAIN gate) => GatedOutcome ]_vars

(* C33: the enabled flag gates processing across operation sequences:      *)
(* after disable_channel(id) succeeds, every process_message_with_checks   *)
(* (id, m) that starts before the next successful enable_channel(id),      *)
(* delete_channel(id) or update_channel(id) whose data carry enabled is    *)
(* rejected as Disabled with no stage run; after enable_channel(id)        *)
(* succeeds, every such call that starts before the next successful        *)
(* disable_channel(id), delete_channel(id) or update_channel(id) whose     *)
(* data carry enabled runs the pipeline.                                   *)
C33_GateUntilNextFlagWrite ==
    [][ ( /\ CheckedCallStarts
          /\ last'.id \in DOMAIN gate
          /\ ~gate[last'.id].touched )
        => GatedOutcome ]_vars

C33_Witness ==
    /\ "c1" \in DOMAIN gate
    /\ gate["c1"] = [by |-> "disable_channel", touched |-> FALSE]
    /\ inflight["r1"].op = "update_channel"
    /\ inflight["r1"].at = "done"
    /\ inflight["r1"].outcome = "ok"
    /\ last.op = "process_message_with_checks"
    /\ last.id = "c1"
    /\ last.outcome = "Disabled"
    /\ pc = "idle"

(* the list of the channel that a stage takes its entries from *)
StageList(ch, stage) ==
    CASE stage = "filter" -> ch.filters
      [] stage = "transformer" -> ch.transformers
      [] stage = "destination" -> ch.destinations

(* C39: one processing call runs on the single channel record loaded at    *)
(* its start: a checked call starts only on a record that is stored and    *)
(* enabled at that moment, the record stays the same until the call        *)
(* returns, and every filter, transformer and destination the call applies *)
(* is an entry of that record, also when update_channel, disable_channel   *)
(* or delete_channel on the same id commit during the call.                *)
C39_CallRunsOnLoadedRecord ==
    [][ /\ ( /\ pc = "idle" /\ pc' = "filtering"
             /\ last'.op \in {"process_message_with_checks", "process_message_endpoint"} )
           => /\ last'.id \in DOMAIN store
              /\ store[last'.id].enabled
              /\ channel' = store[last'.id]
        /\ (pc # "idle" /\ pc' # "idle") => channel' = channel
        /\ \A k \in DOMAIN executed' :
              /\ executed'[k].index \in DOMAIN StageList(channel', executed'[k].stage)
              /\ executed'[k].config =
                    StageList(channel', executed'[k].stage)[executed'[k].index]
        /\ Len(results') > Len(results) => channel.enabled ]_vars

C39_Witness ==
    /\ pc = "done"
    /\ last.op = "process_message_with_checks"
    /\ result.status = "success"
    /\ result.destination_results =
          <<[destination_type |-> "http", status |-> "sent", url |-> "U1"]>>
    /\ channel.id \in DOMAIN store
    /\ ~store[channel.id].enabled
    /\ store[channel.id].destinations = <<DictTCPDestination>>

(* two create_channel requests for one id that overlapped and have ended *)
ConcurrentCreates(r1, r2) ==
    /\ Overlapped(r1, r2)
    /\ inflight[r1].op = "create_channel" /\ inflight[r2].op = "create_channel"
    /\ inflight[r1].at = "done" /\ inflight[r2].at = "done"
    /\ inflight[r1].id = inflight[r2].id

(* C37: when two create_channel calls with the same id run concurrently    *)
(* (their existence check and insert steps interleaved), at most one of    *)
(* them succeeds, the other fails with AlreadyExists, and the store ends   *)
(* with exactly one channel with that id, the one supplied by the          *)
(* successful call.                                                        *)
C37_ConcurrentCreateOneWins ==
    \A r1, r2 \in Requests :
        ConcurrentCreates(r1, r2) =>
            /\ ~(inflight[r1].outcome = "ok" /\ inflight[r2].outcome = "ok")
            /\ inflight[r1].outcome = "ok" =>
                  /\ inflight[r2].outcome = "AlreadyExists"
                  /\ inflight[r1].id \in DOMAIN store
                  /\ store[inflight[r1].id] = AddedRow(ChannelModel(inflight[r1].data))

(* the rows two requests read differ by nothing but what the one wrote     *)
(* before the other read: no third request wrote between them              *)
ReadsOfOneRow(r1, r2) ==
    LET l1 == inflight[r1].loaded
        l2 == inflight[r2].loaded
    IN \/ l1 = l2
       \/ l2 = Merge(l1, inflight[r1].data)
       \/ l1 = [l2 EXCEPT !.enabled = Flag(inflight[r2].op)]

(* an update_channel and an enable_channel / disable_channel on one id    *)
(* that overlapped and have both succeeded                                 *)
ConcurrentUpdateAndToggle(r1, r2) ==
    /\ Overlapped(r1, r2)
    /\ ReadsOfOneRow(r1, r2)
    /\ inflight[r1].op = "update_channel"
    /\ inflight[r2].op \in {"enable_channel", "disable_channel"}
    /\ inflight[r1].at = "done" /\ inflight[r2].at = "done"
    /\ inflight[r1].outcome = "ok" /\ inflight[r2].outcome = "ok"
    /\ inflight[r1].id = inflight[r2].id
    /\ "enabled" \notin DOMAIN inflight[r1].data

(* C38: when update_channel(id, data) and enable_channel(id) or            *)
(* disable_channel(id) run concurrently on the same channel (their read    *)
(* and write-back steps interleaved), no change is lost: the final stored  *)
(* channel carries both the fields supplied in data and the enabled flag   *)
(* set by the toggle.                                                      *)
C38_NoLostUpdate ==
    \A r1, r2 \in Requests :
        ConcurrentUpdateAndToggle(r1, r2) =>
            /\ inflight[r1].id \in DOMAIN store
            /\ \A f \in DOMAIN inflight[r1].data \ {"id"} :
                  store[inflight[r1].id][f] = inflight[r1].data[f]
            /\ store[inflight[r1].id].enabled = Flag(inflight[r2].op)

C38_Witness ==
    /\ ConcurrentUpdateAndToggle("r1", "r2")
    /\ inflight["r1"].loaded = inflight["r2"].loaded
    /\ inflight["r1"].loaded.name # inflight["r1"].data.name
    /\ inflight["r2"].loaded.enabled # Flag(inflight["r2"].op)
    /\ store["c1"].name = inflight["r1"].data.name
    /\ store["c1"].enabled = Flag(inflight["r2"].op)

(* a call of a method of the store is answered in this step *)
StoreAnswered(method) == last'.op = method /\ last' # last

(* C40: on an id that is absent from the store, the store's update fails,  *)
(* its delete returns false and its get_by_id returns no channel; the      *)
(* store is unchanged in all three cases.                                  *)
C40_AbsentIdInStore ==
    [][ (last'.id \notin DOMAIN store /\ last' # last) =>
          /\ StoreAnswered("ChannelRepository.update") =>
                /\ last'.outcome = "ValueError"
                /\ store' = store
          /\ StoreAnswered("ChannelRepository.delete") =>
                /\ last'.ret = [value |-> FALSE]
                /\ store' = store
          /\ StoreAnswered("ChannelRepository.get_by_id") =>
                /\ last'.ret = Nothing
                /\ store' = store ]_vars

C40_Witness ==
    /\ last.op = "ChannelRepository.update"
    /\ last.outcome = "ValueError"
    /\ last.id = "c2"
    /\ DOMAIN store = {"c1"}

=============================================================================
